---- MODULE Spec2Model ----
(***************************************************************************)
(* A model of mneme's ingestion pipeline: the markdown chunker             *)
(* (ParseMarkdown, ChunkSection), the two-table store (chunks, vec_chunks, *)
(* messages, vec_messages), IngestFile, the tailers' ingestBatch and the   *)
(* session tailers (runWatch, runWatchCC).                                 *)
(*                                                                         *)
(* Text is modelled as a sequence of lines (the result of splitting on     *)
(* "\n"); a line is a record [k, s, w]: k is "h2" for a line starting      *)
(* "## ", "h3" for a line starting "### ", "b" for an empty line and "t"   *)
(* for any other line; s is the header's trimmed title or the line's       *)
(* text; w is the number of whitespace-separated words of the line.        *)
(*                                                                         *)
(* Fault model: the calls whose error the code tests can fail (reading the *)
(* file, embedding, opening or committing a transaction, an insert, a      *)
(* message load), and so can the two DELETEs whose error the tailers'      *)
(* ingestBatch discards; a transaction that fails is rolled back as a      *)
(* whole.                                                                  *)
(***************************************************************************)
EXTENDS Integers, Sequences, FiniteSets, TLC

VARIABLES
    chunks,         \* rows of table chunks
    vec_chunks,     \* rows of virtual table vec_chunks
    messages,       \* rows of table messages
    vec_messages,   \* rows of virtual table vec_messages
    files,          \* the file system: path -> index (in Docs) of the document it holds
    ext,            \* the external conversation store: session -> its message ids, oldest first
    pc,             \* the tailer process: "stopped" or "tailing"
    kind,           \* the tailer: "oc" (db.go runWatch), "cc" (runWatchCC), "fs" (watch.go runWatch)
    batchSize,      \* flag -batch
    session,        \* the session picked at startup
    batchNum,       \* runWatch/runWatchCC: batchNum
    done,           \* runWatch: done (the skip set)
    retry,          \* runWatch: retry
    pending,        \* runWatch/runWatchCC: pending
    seenCount,      \* runWatchCC: seenCount
    result,         \* the last step: [op, src, err, hit, validAt, msgs]
    atStart,        \* history: the message ids the session held when the tailer started
    admitted,       \* history: the message ids appended to pending in this run
    polls,          \* history: per poll of this run that admitted messages, how many
    commits,        \* history: the ingestBatch calls that returned nil: [src, msgs, run, at]
    used,           \* history: how much of each limit is used up
    limits,         \* the limits of the exploration
    aliasEnv,       \* the environment variable MNEME_ALIASES
    entityAliases,  \* history.go: entityAliases, lowercase name -> the names of its group
    answer,         \* the last call of a retrieval or message function and what it returned
    EmbedDimension, \* db.go: var EmbedDimension, the configured embedding dimension
    vecDim,         \* the store: N of "embedding float[N]" in its vector tables, 0 before they exist
    fileTx          \* IngestFile: tx, the transaction it has open, statement by statement

store == << chunks, vec_chunks, messages, vec_messages >>
tailer == << pc, session, batchNum, done, retry, pending, seenCount >>
history == << atStart, admitted, polls, commits, used >>
\* db.go: var EmbedDimension = 1024
DefaultDimension == 1024

retrieval == << aliasEnv, entityAliases, answer >>
schema == << EmbedDimension, vecDim >>
vars == << chunks, vec_chunks, messages, vec_messages, files, ext, pc, kind, batchSize,
           session, batchNum, done, retry, pending, seenCount, result, atStart, admitted,
           polls, commits, used, limits, aliasEnv, entityAliases, answer, EmbedDimension,
           vecDim, fileTx >>

(***************************************************************************)
(* Bounds                                                                  *)
(***************************************************************************)
\* the store under file ingestion and one tailer run (Spec)
MaxCalls == 2        \* IngestFile calls
MaxWrites == 1       \* file rewrites
MaxMsgs == 2         \* messages in the external store
MaxFaults == 2       \* injected faults
MaxFaultAt == 2      \* the call of a kind at which a fault can be injected
\* file ingestion alone (SpecFile)
FileCalls == 3
FileWrites == 2
\* the tailers alone (SpecWatch)
WatchMsgs == 4
WatchLoadFails == 1  \* message loads that return nothing
WatchFaults == 1
WatchStarts == 2     \* tailer runs
\* the batch-flush scenario (SpecScenario)
ScenarioMsgs == 7

MessageCalls == 3    \* calls of insertMessages
QueryCalls == 1      \* IngestFile calls before and between the queries
QueryWrites == 1
MaxLimit == 3        \* the largest limit of a query

(***************************************************************************)
(* The loops of the code are recursive operators that hand a state from    *)
(* one iteration to the next.  TLC computes an operator's argument where   *)
(* the operator first uses it, so a loop asks for its state to be computed *)
(* before it goes on: the iterations are then evaluated one after the      *)
(* other instead of nested in one another.                                 *)
(***************************************************************************)
Computed(v) == v = v

(***************************************************************************)
(* Lines and text                                                          *)
(***************************************************************************)
Line(k, s, w) == [k |-> k, s |-> s, w |-> w]
H2(title) == Line("h2", title, 1)
H3(title) == Line("h3", title, 1)
T(s, w) == Line("t", s, w)
Blank == Line("b", "", 0)

IsBlank(l) == l.k = "b"

RECURSIVE TrimLeft(_)
TrimLeft(ls) ==
    IF ls = <<>> THEN <<>>
    ELSE IF IsBlank(Head(ls)) THEN TrimLeft(Tail(ls)) ELSE ls

RECURSIVE TrimRight(_)
TrimRight(ls) ==
    IF ls = <<>> THEN <<>>
    ELSE IF IsBlank(ls[Len(ls)]) THEN TrimRight(SubSeq(ls, 1, Len(ls) - 1)) ELSE ls

\* strings.TrimSpace of a text: the empty lines at both ends go; a text of empty
\* lines only becomes the empty string, <<>>.
TrimSpace(ls) == TrimRight(TrimLeft(ls))

\* len(strings.Fields(text))
RECURSIVE countWords(_)
countWords(ls) == IF ls = <<>> THEN 0 ELSE Head(ls).w + countWords(Tail(ls))

(***************************************************************************)
(* ExtractDateFromHeader: the first "<Month> <day>, <year>" of the header, *)
(* parsed by time.Parse and formatted as YYYY-MM-DD; "" when the header    *)
(* has none or the date does not parse.  A table over the titles in use.   *)
(***************************************************************************)
ExtractDateFromHeader(header) ==
    CASE header = "January 21, 2026" -> "2026-01-21"
      [] header = "January 22, 2026" -> "2026-01-22"
      [] header = "Notes of January 5, 2024" -> "2024-01-05"
      [] header = "February 31, 2026" -> ""
      [] OTHER -> ""

(***************************************************************************)
(* ParseMarkdown                                                           *)
(***************************************************************************)
Section(title, level, parent, content, seq, validAt) ==
    [Title |-> title, HeaderLevel |-> level, ParentTitle |-> parent,
     Content |-> content, Sequence |-> seq, ValidAt |-> validAt]

parseStart ==
    [sections |-> <<>>, seq |-> 1, seenHeader |-> FALSE, preambleLines |-> <<>>,
     currentH2Title |-> "", currentH2Content |-> <<>>, currentH2HasH3 |-> FALSE,
     currentH2ValidAt |-> "",
     currentH3Title |-> "", currentH3Content |-> <<>>, currentH3ValidAt |-> "",
     inH3 |-> FALSE]

addSection(st, title, level, parent, content, validAt) ==
    [st EXCEPT !.sections = Append(@, Section(title, level, parent, content, st.seq, validAt)),
               !.seq = @ + 1]

flushPreamble(st) ==
    IF Len(st.preambleLines) = 0 THEN st
    ELSE LET content == TrimSpace(st.preambleLines)
             s1 == IF content # <<>>
                   THEN addSection(st, "Preamble", 2, "", content, "")
                   ELSE st
         IN [s1 EXCEPT !.preambleLines = <<>>]

flushH3(st) ==
    IF st.currentH3Title = "" THEN st
    ELSE LET content == TrimSpace(st.currentH3Content)
             s1 == addSection(st, st.currentH3Title, 3, st.currentH2Title, content,
                              st.currentH3ValidAt)
         IN [s1 EXCEPT !.currentH3Title = "", !.currentH3Content = <<>>,
                       !.currentH3ValidAt = "", !.inH3 = FALSE]

flushH2(st) ==
    IF st.currentH2Title = "" THEN st
    ELSE LET s1 == IF ~st.currentH2HasH3
                   THEN addSection(st, st.currentH2Title, 2, "",
                                   TrimSpace(st.currentH2Content), st.currentH2ValidAt)
                   ELSE st
         IN [s1 EXCEPT !.currentH2Title = "", !.currentH2Content = <<>>,
                       !.currentH2HasH3 = FALSE, !.currentH2ValidAt = ""]

firstHeader(st) ==
    IF ~st.seenHeader THEN flushPreamble([st EXCEPT !.seenHeader = TRUE]) ELSE st

\* a "### " line under a level-2 header that has had no child yet: the body
\* before the first child, when it has text, is a section of its own
h2Preamble(st) ==
    IF st.currentH2Title # "" /\ ~st.currentH2HasH3
    THEN [(IF TrimSpace(st.currentH2Content) # <<>>
           THEN addSection(st, st.currentH2Title, 2, "", TrimSpace(st.currentH2Content),
                           st.currentH2ValidAt)
           ELSE st) EXCEPT !.currentH2Content = <<>>]
    ELSE st

\* a "### " line that takes the date of its own header only
openH3_ownDate(st, title, date) ==
    [st EXCEPT !.currentH2HasH3 = TRUE, !.inH3 = TRUE,
               !.currentH3Title = title,
               !.currentH3ValidAt = date,
               !.currentH3Content = <<>>]

openH3(st, title, date) ==
    [st EXCEPT !.currentH2HasH3 = TRUE, !.inH3 = TRUE,
               !.currentH3Title = title,
               !.currentH3ValidAt = IF date = "" THEN st.currentH2ValidAt ELSE date,
               !.currentH3Content = <<>>]

openH2(st, title) ==
    [st EXCEPT !.currentH2Title = title, !.currentH2Content = <<>>,
               !.currentH2HasH3 = FALSE,
               !.currentH2ValidAt = ExtractDateFromHeader(title),
               !.inH3 = FALSE]

parseLine(st, line) ==
    IF line.k = "h3"
    THEN openH3(h2Preamble(flushH3(firstHeader(st))), line.s, ExtractDateFromHeader(line.s))
    ELSE IF line.k = "h2" THEN openH2(flushH2(flushH3(firstHeader(st))), line.s)
    ELSE IF st.inH3 THEN [st EXCEPT !.currentH3Content = Append(@, line)]
    ELSE IF st.currentH2Title # "" THEN [st EXCEPT !.currentH2Content = Append(@, line)]
    ELSE [st EXCEPT !.preambleLines = Append(@, line)]

\* for _, line := range lines
RECURSIVE parseLines(_, _)
parseLines(st, lines) ==
    IF Computed(st) /\ lines # <<>>
    THEN parseLines(parseLine(st, Head(lines)), Tail(lines))
    ELSE st

\* the end of input: what is open is flushed
finishParse(st) == (IF ~st.seenHeader THEN flushPreamble(st) ELSE st).sections

ParseMarkdown(content) == finishParse(flushH2(flushH3(parseLines(parseStart, content))))

(***************************************************************************)
(* ChunkSection                                                            *)
(***************************************************************************)
ChunkData(text, section, chunkSequence, chunkTotal) ==
    [Text |-> text, SectionTitle |-> section.Title, HeaderLevel |-> section.HeaderLevel,
     ParentTitle |-> section.ParentTitle, SectionSequence |-> section.Sequence,
     ChunkSequence |-> chunkSequence, ChunkTotal |-> chunkTotal,
     ValidAt |-> section.ValidAt]

\* The non-empty trimmed pieces of strings.Split(content, "\n\n"): two newlines
\* in a row are an empty line, so the pieces are the maximal runs of non-empty
\* lines.
RECURSIVE splitParagraphs(_, _, _)
splitParagraphs(ls, cur, acc) ==
    IF ls = <<>> THEN (IF cur = <<>> THEN acc ELSE Append(acc, cur))
    ELSE IF IsBlank(Head(ls))
         THEN splitParagraphs(Tail(ls), <<>>, IF cur = <<>> THEN acc ELSE Append(acc, cur))
         ELSE splitParagraphs(Tail(ls), Append(cur, Head(ls)), acc)

\* strings.Join(parts, "\n\n")
RECURSIVE joinParagraphs(_)
joinParagraphs(parts) ==
    IF parts = <<>> THEN <<>>
    ELSE IF Len(parts) = 1 THEN parts[1]
    ELSE parts[1] \o <<Blank>> \o joinParagraphs(Tail(parts))

\* flushChunk that empties the open chunk without emitting it
flushChunk_lost(st) ==
    [chunkTexts |-> st.chunkTexts, currentParts |-> <<>>, currentWords |-> 0]

flushChunk(st) ==
    IF Len(st.currentParts) = 0 THEN st
    ELSE [chunkTexts |-> Append(st.chunkTexts, joinParagraphs(st.currentParts)),
          currentParts |-> <<>>, currentWords |-> 0]

\* packParagraph that never closes a chunk before the last paragraph
packParagraph_noFlush(st, trimmed, maxWords) ==
    IF st.currentWords = 0 /\ countWords(trimmed) > maxWords
    THEN [st EXCEPT !.chunkTexts = Append(@, trimmed)]
    ELSE [st EXCEPT !.currentParts = Append(@, trimmed),
                    !.currentWords = @ + countWords(trimmed)]

packParagraph(st, trimmed, maxWords) ==
    LET paraWords == countWords(trimmed) IN
    IF st.currentWords = 0 /\ paraWords > maxWords
    THEN [st EXCEPT !.chunkTexts = Append(@, trimmed)]
    ELSE LET s1 == IF st.currentWords + paraWords > maxWords THEN flushChunk(st) ELSE st
         IN [s1 EXCEPT !.currentParts = Append(@, trimmed),
                       !.currentWords = @ + paraWords]

RECURSIVE packParagraphs(_, _, _)
packParagraphs(st, paragraphs, maxWords) ==
    IF Computed(st) /\ paragraphs # <<>>
    THEN packParagraphs(packParagraph(st, Head(paragraphs), maxWords),
                        Tail(paragraphs), maxWords)
    ELSE st

\* the chunks of an oversized section, numbered from 1
numberChunks(chunkTexts, section) ==
    [idx \in 1..Len(chunkTexts) |->
        ChunkData(chunkTexts[idx], section, idx, Len(chunkTexts))]

ChunkSection(section, maxWords) ==
    IF countWords(section.Content) <= maxWords
    THEN << ChunkData(TrimSpace(section.Content), section, 1, 1) >>
    ELSE numberChunks(
             flushChunk(packParagraphs(
                 [chunkTexts |-> <<>>, currentParts |-> <<>>, currentWords |-> 0],
                 splitParagraphs(section.Content, <<>>, <<>>), maxWords)).chunkTexts,
             section)

\* the word limit IngestFile and ingestBatch pass to ChunkSection
MaxWords == 600

(***************************************************************************)
(* The store                                                               *)
(***************************************************************************)
\* SQL NULL in column valid_at (an invalid sql.NullString)
Null == "<null>"

\* A source_file: a path, or the tailers' "<scheme>://<session>/batch-<n>".
FileSource(path) == [scheme |-> "file", name |-> path, batch |-> -1]
WatchSource(scheme, sessionID, n) == [scheme |-> scheme, name |-> sessionID, batch |-> n]

\* ollama.Embed followed by SerializeFloat32: the vector of a text
Embed(text) == [of |-> text]

Max(S) == CHOOSE x \in S : \A y \in S : y <= x

\* INTEGER PRIMARY KEY without AUTOINCREMENT: the next rowid is one more than
\* the largest in the table.
nextRowID(tbl) == IF tbl = {} THEN 1 ELSE Max({r.id : r \in tbl}) + 1

\* UNIQUE(source_file, section_sequence, chunk_sequence)
uniqueKey(row) == << row.source_file, row.section_sequence, row.chunk_sequence >>

chunkRow(id, chunk, sourceFile, validAt) ==
    [id |-> id, text |-> chunk.Text, source_file |-> sourceFile,
     section_title |-> chunk.SectionTitle, header_level |-> chunk.HeaderLevel,
     parent_title |-> chunk.ParentTitle, section_sequence |-> chunk.SectionSequence,
     chunk_sequence |-> chunk.ChunkSequence, chunk_total |-> chunk.ChunkTotal,
     valid_at |-> validAt]

\* a table without the UNIQUE constraint
insertRow_noUnique(tbl, row) == [err |-> FALSE, tbl |-> tbl \cup {row}, id |-> row.id]

\* the INSERT of a row: refused when the row breaks the UNIQUE constraint
insertRow(tbl, row) ==
    IF \E r \in tbl : uniqueKey(r) = uniqueKey(row)
    THEN [err |-> TRUE, tbl |-> tbl, id |-> 0]
    ELSE [err |-> FALSE, tbl |-> tbl \cup {row}, id |-> row.id]

\* INSERT INTO chunks (...) VALUES (...): the row gets the next rowid
insertChunk(tbl, chunk, sourceFile, validAt) ==
    insertRow(tbl, chunkRow(nextRowID(tbl), chunk, sourceFile, validAt))

\* insertVec that reports success and stores nothing
insertVec_lost(vtbl, chunkID, embedding) == [err |-> FALSE, tbl |-> vtbl]

\* INSERT INTO vec_chunks (chunk_id, embedding): chunk_id is the primary key.
insertVec(vtbl, chunkID, embedding) ==
    IF \E v \in vtbl : v.chunk_id = chunkID
    THEN [err |-> TRUE, tbl |-> vtbl]
    ELSE [err |-> FALSE, tbl |-> vtbl \cup {[chunk_id |-> chunkID, embedding |-> embedding]}]

\* DELETE FROM vec_chunks, without the WHERE
deleteVecsOf_all(vtbl, tbl, sourceFile) == {}

\* DELETE FROM vec_chunks WHERE chunk_id IN (SELECT id FROM chunks WHERE source_file = ?)
deleteVecsOf(vtbl, tbl, sourceFile) ==
    {v \in vtbl : ~\E r \in tbl : r.source_file = sourceFile /\ r.id = v.chunk_id}

\* deleteChunksOf that deletes nothing
deleteChunksOf_kept(tbl, sourceFile) == tbl

\* DELETE FROM chunks WHERE source_file = ?
deleteChunksOf(tbl, sourceFile) == {r \in tbl : r.source_file # sourceFile}

\* SELECT ... FROM chunks WHERE source_file = ?
rowsOf(tbl, sourceFile) == {r \in tbl : r.source_file = sourceFile}

\* a column that stores the empty date as it is
nullString_empty(date) == date

\* sql.NullString of a date: NULL when the date is empty
nullString(date) == IF date = "" THEN Null ELSE date

\* An injected fault: the n-th call of kind `at` fails.
Fault(at, n) == [at |-> at, n |-> n]
NoFault == Fault("none", 0)

\* The statements whose error the tailers discard: the two DELETEs that open
\* ingestBatch.  A failure of one of them goes unnoticed by the code.
IgnoredErrors == {"delvec", "delchunks"}

(***************************************************************************)
(* IngestFile                                                              *)
(***************************************************************************)
\* chunk.ValidAt = sectionValidAt
resolveValidAt(cs, sectionValidAt) ==
    [i \in 1..Len(cs) |-> [cs[i] EXCEPT !.ValidAt = sectionValidAt]]

\* the inner loops of IngestFile, flattened: the chunks of every section in
\* order, each with the section's resolved valid_at
RECURSIVE sectionChunks(_, _)
sectionChunks(sections, validAt) ==
    IF sections = <<>> THEN <<>>
    ELSE resolveValidAt(ChunkSection(Head(sections), MaxWords),
                        IF Head(sections).ValidAt = "" THEN validAt
                        ELSE Head(sections).ValidAt)
         \o sectionChunks(Tail(sections), validAt)

\* a rollback that keeps what the transaction wrote
txRollback_kept(before, after) == after

\* the effect of a failed transaction on a table (the deferred tx.Rollback)
txRollback(before, after) == before

\* the INSERT INTO vec_chunks of a chunk, inside the transaction
storeVec(st, ins, vec, fault) ==
    IF vec.err \/ fault = Fault("vec", st.n + 1)
    THEN [st EXCEPT !.err = TRUE, !.hit = IF vec.err THEN "pk" ELSE "vec"]
    ELSE [st EXCEPT !.chunks = ins.tbl, !.vec_chunks = vec.tbl, !.n = @ + 1]

\* the INSERT INTO chunks of a chunk and what follows it
storeChunk(st, ins, embedding, fault) ==
    IF ins.err \/ fault = Fault("insert", st.n + 1)
    THEN [st EXCEPT !.err = TRUE, !.hit = IF ins.err THEN "unique" ELSE "insert"]
    ELSE storeVec(st, ins, insertVec(st.vec_chunks, ins.id, embedding), fault)

\* ingestFileChunk without the test of the chunk's text
ingestFileChunk_noSkip(st, chunk, filePath, fault) ==
    IF st.err THEN st
    ELSE IF fault = Fault("embed", st.n + 1) THEN [st EXCEPT !.err = TRUE, !.hit = "embed"]
    ELSE storeChunk(st, insertChunk(st.chunks, chunk, filePath, nullString(chunk.ValidAt)),
                    Embed(chunk.Text), fault)

\* one iteration of the loop over a section's chunks, inside the transaction
ingestFileChunk(st, chunk, filePath, fault) ==
    IF st.err THEN st
    ELSE IF TrimSpace(chunk.Text) = <<>> THEN [st EXCEPT !.created = @ - 1]
    ELSE IF fault = Fault("embed", st.n + 1) THEN [st EXCEPT !.err = TRUE, !.hit = "embed"]
    ELSE storeChunk(st, insertChunk(st.chunks, chunk, filePath, nullString(chunk.ValidAt)),
                    Embed(chunk.Text), fault)

RECURSIVE ingestFileChunks(_, _, _, _)
ingestFileChunks(st, cs, filePath, fault) ==
    IF Computed(st) /\ cs # <<>>
    THEN ingestFileChunks(ingestFileChunk(st, Head(cs), filePath, fault),
                          Tail(cs), filePath, fault)
    ELSE st

RECURSIVE subChunks(_)
subChunks(sections) ==
    IF sections = <<>> THEN 0
    ELSE Len(ChunkSection(Head(sections), MaxWords)) - 1 + subChunks(Tail(sections))

\* IngestResult{}
noResult ==
    [SectionsFound |-> 0, ChunksCreated |-> 0, SubChunksCreated |-> 0, DeletedChunks |-> 0]

\* the loops over the sections and their chunks
ingestFileLoop(tbl1, vtbl1, cs, filePath, fault) ==
    ingestFileChunks([err |-> FALSE, hit |-> "none", chunks |-> tbl1, vec_chunks |-> vtbl1,
                      n |-> 0, created |-> Len(cs)],
                     cs, filePath, fault)

\* the return of IngestFile: an error (the deferred rollback undoes the
\* transaction) or the commit
ingestFileEnd(tbl, vtbl, sections, st, deleted, fault) ==
    IF st.err \/ fault.at = "commit"
    THEN [err |-> TRUE, hit |-> IF st.err THEN st.hit ELSE "commit", eff |-> FALSE,
          chunks |-> txRollback(tbl, st.chunks),
          vec_chunks |-> txRollback(vtbl, st.vec_chunks), res |-> noResult]
    ELSE [err |-> FALSE, hit |-> "none", eff |-> FALSE,
          chunks |-> st.chunks, vec_chunks |-> st.vec_chunks,
          res |-> [SectionsFound |-> Len(sections), ChunksCreated |-> st.created,
                   SubChunksCreated |-> subChunks(sections), DeletedChunks |-> deleted]]

\* the transaction of IngestFile
ingestFileTx(tbl, vtbl, filePath, sections, validAt, fault) ==
    ingestFileEnd(tbl, vtbl, sections,
                  ingestFileLoop(deleteChunksOf(tbl, filePath),
                                 deleteVecsOf(vtbl, tbl, filePath),
                                 sectionChunks(sections, validAt), filePath, fault),
                  Cardinality(rowsOf(tbl, filePath)), fault)

\* IngestFile on tables (tbl, vtbl) with the file holding `content`: the error
\* flag, the fault that caused it, the tables it leaves and the IngestResult.
\* Every error return rolls the transaction back.
IngestFileRun(tbl, vtbl, filePath, validAt, content, fault) ==
    IF fault.at \in {"read", "begin"}
    THEN [err |-> TRUE, hit |-> fault.at, eff |-> FALSE, chunks |-> tbl,
          vec_chunks |-> vtbl, res |-> noResult]
    ELSE ingestFileTx(tbl, vtbl, filePath, ParseMarkdown(content), validAt, fault)

(***************************************************************************)
(* Messages of the external conversation store.  A message is known by a   *)
(* number; its fields are functions of that number, so that batches mix    *)
(* calendar days, short texts and texts that hold a markdown header.       *)
(***************************************************************************)
\* Timestamp.Format("January 2, 2006")
msgDate(id) == IF id <= 2 THEN "January 21, 2026" ELSE "January 22, 2026"

\* the cleaned text (stripNoise)
msgText(id) ==
    IF id % 3 = 0
    THEN << T(ToString(id), 4), Blank, H2("Plan"), T(ToString(id), 3) >>
    ELSE << T(ToString(id), 5) >>

\* len(m.Text), in bytes
msgBytes(id) == IF id % 4 = 2 THEN 5 ELSE 40

textMessage(id, sessionID) ==
    [MessageID |-> id, SessionID |-> sessionID,
     Role |-> IF id % 2 = 1 THEN "User" ELSE "Assistant",
     Timestamp |-> id, Date |-> msgDate(id), Text |-> msgText(id),
     Bytes |-> msgBytes(id)]

\* a message with the id of another one and other fields
editedMessage(id) ==
    [MessageID |-> id, SessionID |-> "s2",
     Role |-> IF id % 2 = 1 THEN "Assistant" ELSE "User",
     Timestamp |-> id + 100, Date |-> "January 22, 2026",
     Text |-> << T("edited", 6) >>, Bytes |-> 40]

(***************************************************************************)
(* buildWatchMarkdown                                                      *)
(***************************************************************************)
RECURSIVE writeTurns(_, _)
writeTurns(msgs, date) ==
    IF msgs = <<>> THEN <<>>
    ELSE LET m == Head(msgs)
             roll == IF m.Date # date THEN << Blank, H2(m.Date), Blank >> ELSE <<>>
         IN roll \o << T("**" \o m.Role \o "**", 2) >> \o m.Text \o << Blank >>
            \o writeTurns(Tail(msgs), m.Date)

buildWatchMarkdown(msgs, sessionTitle) ==
    IF Len(msgs) = 0 THEN <<>>
    ELSE << T("# " \o sessionTitle, 2), Blank, H2(msgs[1].Date), Blank >>
         \o writeTurns(msgs, msgs[1].Date) \o << Blank >>

(***************************************************************************)
(* insertMessages (db.go)                                                  *)
(***************************************************************************)
messageRow(m) ==
    [id |-> m.MessageID, session_id |-> m.SessionID, role |-> m.Role,
     timestamp |-> m.Timestamp, text |-> m.Text]

\* INSERT OR REPLACE INTO messages
RECURSIVE upsertMessages_replace(_, _)
upsertMessages_replace(mtbl, msgs) ==
    IF ~Computed(mtbl) \/ msgs = <<>> THEN mtbl
    ELSE upsertMessages_replace(
             {r \in mtbl : r.id # Head(msgs).MessageID} \cup {messageRow(Head(msgs))},
             Tail(msgs))

\* INSERT OR IGNORE INTO messages, one message after the other
RECURSIVE upsertMessages(_, _)
upsertMessages(mtbl, msgs) ==
    IF ~Computed(mtbl) \/ msgs = <<>> THEN mtbl
    ELSE LET m == Head(msgs)
             present == \E r \in mtbl : r.id = m.MessageID
         IN upsertMessages(IF present THEN mtbl ELSE mtbl \cup {messageRow(m)}, Tail(msgs))

\* the rows of toEmbed that get a vector: texts of 10 bytes or more whose
\* embedding succeeds (INSERT OR IGNORE INTO vec_messages)
embedMessages(vmtbl, toEmbed, embedDown) ==
    vmtbl \cup {[message_id |-> m.MessageID, embedding |-> Embed(m.Text)] :
                  m \in {x \in toEmbed : x.Bytes >= 10 /\ ~embedDown
                                          /\ ~\E v \in vmtbl : v.message_id = x.MessageID}}

\* msgFault: "tx" when the message transaction fails (nothing is written and
\* the caller logs a warning), "embed" when the message embeddings fail.
insertMessages(mtbl, vmtbl, msgs, msgFault) ==
    IF Len(msgs) = 0 \/ msgFault = "tx"
    THEN [err |-> msgFault = "tx" /\ Len(msgs) # 0, messages |-> mtbl,
          vec_messages |-> vmtbl, inserted |-> 0]
    ELSE LET mtbl1 == upsertMessages(mtbl, msgs)
             toEmbed == {msgs[i] : i \in {j \in 1..Len(msgs) :
                             /\ ~\E r \in mtbl : r.id = msgs[j].MessageID
                             /\ ~\E k \in 1..(j - 1) :
                                    msgs[k].MessageID = msgs[j].MessageID}}
         IN [err |-> FALSE, messages |-> mtbl1,
             vec_messages |-> embedMessages(vmtbl, toEmbed, msgFault = "embed"),
             inserted |-> Cardinality(mtbl1) - Cardinality(mtbl)]

(***************************************************************************)
(* ingestBatch (db.go): embed first, then one transaction, then vectors    *)
(***************************************************************************)
\* the chunks with text
keepText(cs) == SelectSeq(cs, LAMBDA c : TrimSpace(c.Text) # <<>>)

\* Phase 1: the chunks of the sections with content, each embedded; the
\* n-th embedding fails under Fault("embed", n).
RECURSIVE batchChunks(_)
batchChunks(sections) ==
    IF sections = <<>> THEN <<>>
    ELSE (IF TrimSpace(Head(sections).Content) = <<>> THEN <<>>
          ELSE keepText(ChunkSection(Head(sections), MaxWords)))
         \o batchChunks(Tail(sections))

\* one INSERT INTO chunks of the transaction
insertOne(st, ins, fault) ==
    IF ins.err \/ fault = Fault("insert", Len(st.chunkIDs) + 1)
    THEN [st EXCEPT !.err = TRUE, !.hit = IF ins.err THEN "unique" ELSE "insert"]
    ELSE [st EXCEPT !.chunks = ins.tbl, !.chunkIDs = Append(@, ins.id)]

\* the inserts of the transaction
RECURSIVE insertPrepared(_, _, _, _)
insertPrepared(st, prepared, sourceFile, fault) ==
    IF prepared = <<>> \/ st.err THEN st
    ELSE insertPrepared(
             insertOne(st, insertChunk(st.chunks, Head(prepared), sourceFile,
                                       nullString(Head(prepared).ValidAt)), fault),
             Tail(prepared), sourceFile, fault)

\* one INSERT INTO vec_chunks after the commit
insertVector(st, vec, fault) ==
    IF vec.err \/ fault = Fault("vec", st.i)
    THEN [st EXCEPT !.err = TRUE, !.hit = IF vec.err THEN "pk" ELSE "vec"]
    ELSE [st EXCEPT !.tbl = vec.tbl, !.i = @ + 1]

\* the vector inserts after the commit, each its own statement
RECURSIVE insertVectors(_, _, _, _)
insertVectors(st, prepared, chunkIDs, fault) ==
    IF st.err \/ st.i > Len(prepared) THEN st
    ELSE insertVectors(
             insertVector(st, insertVec(st.tbl, chunkIDs[st.i], Embed(prepared[st.i].Text)),
                          fault),
             prepared, chunkIDs, fault)

\* what ingestBatch returns and leaves: the error flag, its cause, whether a
\* DELETE whose error is discarded failed with rows to delete, and the store
ingestBatchOut(err, hit, eff, db) == [err |-> err, hit |-> hit, eff |-> eff, db |-> db]

\* db.Exec(DELETE FROM vec_chunks WHERE chunk_id IN (...)), its error discarded
deleteVecs(db, sourceFile, fault) ==
    [db EXCEPT !.vec_chunks = IF fault.at = "delvec" THEN @
                              ELSE deleteVecsOf(@, db.chunks, sourceFile)]

\* Exec(DELETE FROM chunks WHERE source_file = ?), its error discarded
deleteChunks(db, sourceFile, fault) ==
    IF fault.at = "delchunks" THEN db.chunks ELSE deleteChunksOf(db.chunks, sourceFile)

\* a DELETE failed that had rows to delete
ignoredEffect(db, sourceFile, fault) ==
    \/ fault.at = "delvec" /\ deleteVecsOf(db.vec_chunks, db.chunks, sourceFile) # db.vec_chunks
    \/ fault.at = "delchunks" /\ deleteChunksOf(db.chunks, sourceFile) # db.chunks

\* after the commit: the vector inserts
ingestBatchVectors(db2, eff, tx, vecs) ==
    ingestBatchOut(vecs.err, vecs.hit, eff,
                   [db2 EXCEPT !.chunks = tx.chunks, !.vec_chunks = vecs.tbl])

\* tx.Commit, or the deferred rollback on an error
ingestBatchCommit(db2, eff, tx, prepared, fault) ==
    IF tx.err \/ fault.at = "commit"
    THEN ingestBatchOut(TRUE, IF tx.err THEN tx.hit ELSE "commit", eff,
                        [db2 EXCEPT !.chunks = txRollback(db2.chunks, tx.chunks)])
    ELSE ingestBatchVectors(db2, eff, tx,
             insertVectors([err |-> FALSE, hit |-> "none", tbl |-> db2.vec_chunks, i |-> 1],
                           prepared, tx.chunkIDs, fault))

\* db.Begin and the transaction
ingestBatchTx(db2, eff, prepared, sourceFile, fault) ==
    IF fault.at = "begin" THEN ingestBatchOut(TRUE, "begin", FALSE, db2)
    ELSE ingestBatchCommit(db2, eff,
             insertPrepared([err |-> FALSE, hit |-> "none",
                             chunks |-> deleteChunks(db2, sourceFile, fault),
                             chunkIDs |-> <<>>],
                            prepared, sourceFile, fault),
             prepared, fault)

\* the embeddings of the chunks, then the writes
ingestBatchPrepared(db1, prepared, sourceFile, fault) ==
    IF fault.at = "embed" /\ fault.n \in 1..Len(prepared)
    THEN ingestBatchOut(TRUE, "embed", FALSE, db1)
    ELSE IF Len(prepared) = 0 THEN ingestBatchOut(FALSE, "none", FALSE, db1)
    ELSE ingestBatchTx(deleteVecs(db1, sourceFile, fault),
                       ignoredEffect(db1, sourceFile, fault), prepared, sourceFile, fault)

ingestBatchSections(db1, sections, sourceFile, fault) ==
    IF Len(sections) = 0 THEN ingestBatchOut(FALSE, "none", FALSE, db1)
    ELSE ingestBatchPrepared(db1, batchChunks(sections), sourceFile, fault)

\* the store after insertMessages; its error is logged and nothing more
storeMessages(db, im) ==
    [db EXCEPT !.messages = im.messages, !.vec_messages = im.vec_messages]

ingestBatch(db, sourceFile, msgs, sessionTitle, fault, msgFault) ==
    ingestBatchSections(
        storeMessages(db, insertMessages(db.messages, db.vec_messages, msgs, msgFault)),
        ParseMarkdown(buildWatchMarkdown(msgs, sessionTitle)), sourceFile, fault)

(***************************************************************************)
(* ingestBatch (watch.go): every statement commits on its own, and each    *)
(* chunk is embedded right before it is inserted                           *)
(***************************************************************************)
\* the INSERT INTO vec_chunks of a chunk whose row is in the table
storeVec_watch(st, ins, vec, fault) ==
    IF vec.err \/ fault = Fault("vec", st.n + 1)
    THEN [st EXCEPT !.err = TRUE, !.hit = IF vec.err THEN "pk" ELSE "vec",
                    !.chunks = ins.tbl]
    ELSE [st EXCEPT !.chunks = ins.tbl, !.vec_chunks = vec.tbl, !.n = @ + 1]

storeChunk_watch(st, ins, embedding, fault) ==
    IF ins.err \/ fault = Fault("insert", st.n + 1)
    THEN [st EXCEPT !.err = TRUE, !.hit = IF ins.err THEN "unique" ELSE "insert"]
    ELSE storeVec_watch(st, ins, insertVec(st.vec_chunks, ins.id, embedding), fault)

\* one iteration of the loop over the chunks
ingestBatchChunk(st, chunk, sourceFile, fault) ==
    IF fault = Fault("embed", st.n + 1) THEN [st EXCEPT !.err = TRUE, !.hit = "embed"]
    ELSE storeChunk_watch(st, insertChunk(st.chunks, chunk, sourceFile,
                                          nullString(chunk.ValidAt)),
                          Embed(chunk.Text), fault)

RECURSIVE ingestBatchChunks(_, _, _, _)
ingestBatchChunks(st, cs, sourceFile, fault) ==
    IF cs = <<>> \/ st.err THEN st
    ELSE ingestBatchChunks(ingestBatchChunk(st, Head(cs), sourceFile, fault),
                           Tail(cs), sourceFile, fault)

ingestBatchEnd_watch(db, eff, st) ==
    ingestBatchOut(st.err, st.hit, eff,
                   [db EXCEPT !.chunks = st.chunks, !.vec_chunks = st.vec_chunks])

ingestBatchSections_watch(db, sections, sourceFile, fault) ==
    IF Len(sections) = 0 THEN ingestBatchOut(FALSE, "none", FALSE, db)
    ELSE ingestBatchEnd_watch(db, ignoredEffect(db, sourceFile, fault),
             ingestBatchChunks([err |-> FALSE, hit |-> "none",
                                chunks |-> deleteChunks(db, sourceFile, fault),
                                vec_chunks |-> deleteVecs(db, sourceFile, fault).vec_chunks,
                                n |-> 0],
                               batchChunks(sections), sourceFile, fault))

ingestBatch_watch(db, sourceFile, msgs, sessionTitle, fault) ==
    ingestBatchSections_watch(db, ParseMarkdown(buildWatchMarkdown(msgs, sessionTitle)),
                              sourceFile, fault)

(***************************************************************************)
(* Strings, character by character                                         *)
(***************************************************************************)
charAt(s, i) == SubSeq(s, i, i)

\* the positions of s that hold something else than a space
nonSpace(s) == {i \in 1..Len(s) : charAt(s, i) # " "}

Min(S) == CHOOSE x \in S : \A y \in S : x <= y

\* strings.TrimSpace of a string
TrimSpaceStr(s) ==
    IF nonSpace(s) = {} THEN "" ELSE SubSeq(s, Min(nonSpace(s)), Max(nonSpace(s)))

\* unicode.ToLower over the letters in use
ToLowerRune(c) ==
    CASE c = "A" -> "a" [] c = "B" -> "b" [] c = "G" -> "g" [] c = "O" -> "o"
      [] c = "P" -> "p" [] c = "É" -> "é" [] OTHER -> c

\* strings.ToLower
RECURSIVE ToLower(_)
ToLower(s) ==
    IF Len(s) = 0 THEN "" ELSE ToLowerRune(charAt(s, 1)) \o ToLower(SubSeq(s, 2, Len(s)))

\* the pieces of s between the positions `cuts`, in order
RECURSIVE piecesFrom(_, _, _)
piecesFrom(s, cuts, start) ==
    IF \A i \in cuts : i < start THEN << SubSeq(s, start, Len(s)) >>
    ELSE << SubSeq(s, start, Min({i \in cuts : i >= start}) - 1) >>
         \o piecesFrom(s, cuts, Min({i \in cuts : i >= start}) + 1)

\* strings.Split(s, sep) for a separator of one character
Split(s, sep) == piecesFrom(s, {i \in 1..Len(s) : charAt(s, i) = sep}, 1)

\* strings.SplitN(s, sep, 2): cut at the first separator only
SplitN2(s, sep) ==
    IF \E i \in 1..Len(s) : charAt(s, i) = sep
    THEN piecesFrom(s, {Min({i \in 1..Len(s) : charAt(s, i) = sep})}, 1)
    ELSE << s >>

(***************************************************************************)
(* Entity aliases (history.go)                                             *)
(***************************************************************************)
\* var entityAliases = map[string][]string{}
NoAliases == [k \in {} |-> << >>]

\* name = strings.TrimSpace(name); if name == "" { continue }
trimmedNames(rawNames) ==
    SelectSeq([i \in 1..Len(rawNames) |-> TrimSpaceStr(rawNames[i])], LAMBDA n : n # "")

lowerKeys(names) == {ToLower(names[i]) : i \in 1..Len(names)}

\* entityAliases[strings.ToLower(name)] = names, for every name of the group
setNames(m, names) ==
    IF Len(names) = 0 THEN m
    ELSE [k \in DOMAIN m \cup lowerKeys(names) |->
             IF k \in lowerKeys(names) THEN names ELSE m[k]]

\* a group cut at its first "=": the text on the left must not be blank
loadParts(m, parts) ==
    IF Len(parts) # 2 THEN m
    ELSE IF ToLower(TrimSpaceStr(parts[1])) = "" THEN m
    ELSE setNames(m, trimmedNames(Split(parts[2], ",")))

\* one group of the configuration
loadGroup(m, group) ==
    IF TrimSpaceStr(group) = "" THEN m ELSE loadParts(m, SplitN2(TrimSpaceStr(group), "="))

RECURSIVE loadGroups(_, _)
loadGroups(m, groups) ==
    IF Computed(m) /\ groups # << >>
    THEN loadGroups(loadGroup(m, Head(groups)), Tail(groups))
    ELSE m

loadAliasesFromEnv(m, env) ==
    IF TrimSpaceStr(env) = "" THEN m ELSE loadGroups(m, Split(TrimSpaceStr(env), ";"))

\* resolveAliases that looks the entity up as it is written
resolveAliases_asWritten(m, entity) ==
    IF TrimSpaceStr(entity) \in DOMAIN m THEN m[TrimSpaceStr(entity)] ELSE << entity >>

\* the names to search for an entity
resolveAliases(m, entity) ==
    IF ToLower(TrimSpaceStr(entity)) \in DOMAIN m
    THEN m[ToLower(TrimSpaceStr(entity))]
    ELSE << entity >>

(***************************************************************************)
(* Comparison of strings, byte by byte (Go's < on strings, SQLite's        *)
(* BINARY collation), over the characters of the dates in use              *)
(***************************************************************************)
byteOf(c) ==
    CASE c = "-" -> 45 [] c = "0" -> 48 [] c = "1" -> 49 [] c = "2" -> 50 [] c = "3" -> 51
      [] c = "4" -> 52 [] c = "5" -> 53 [] c = "6" -> 54 [] c = "7" -> 55 [] c = "8" -> 56
      [] c = "9" -> 57 [] c = ":" -> 58 [] c = "T" -> 84 [] c = "Z" -> 90 [] OTHER -> 0

\* the first position at which a and b differ, 0 when one is a prefix of the other
firstDiff(a, b) ==
    IF \E i \in 1..Len(a) : i <= Len(b) /\ charAt(a, i) # charAt(b, i)
    THEN Min({i \in 1..Len(a) : i <= Len(b) /\ charAt(a, i) # charAt(b, i)})
    ELSE 0

lessAt(a, b, i) ==
    IF i = 0 THEN Len(a) < Len(b) ELSE byteOf(charAt(a, i)) < byteOf(charAt(b, i))

\* a < b
strLess(a, b) == lessAt(a, b, firstDiff(a, b))

(***************************************************************************)
(* The text of a chunk as one string, and SQLite's LIKE                    *)
(***************************************************************************)
lineString(l) ==
    IF l.k = "h2" THEN "## " \o l.s ELSE IF l.k = "h3" THEN "### " \o l.s ELSE l.s

\* the lines joined by "\n"
RECURSIVE textString(_)
textString(ls) ==
    IF ls = << >> THEN ""
    ELSE IF Len(ls) = 1 THEN lineString(ls[1])
    ELSE lineString(ls[1]) \o "\n" \o textString(Tail(ls))

\* strings.NewReplacer(`\`, `\\`, `%`, `\%`, `_`, `\_`).Replace(name)
RECURSIVE escapeLike(_)
escapeLike(name) ==
    IF Len(name) = 0 THEN ""
    ELSE (IF charAt(name, 1) \in {"\\", "%", "_"} THEN "\\" ELSE "") \o charAt(name, 1)
         \o escapeLike(SubSeq(name, 2, Len(name)))

\* the case folding of LIKE: the letters A-Z only
likeFold(c) ==
    CASE c = "A" -> "a" [] c = "B" -> "b" [] c = "G" -> "g" [] c = "O" -> "o"
      [] c = "P" -> "p" [] OTHER -> c

likeSame(a, b) == likeFold(a) = likeFold(b)

\* txt LIKE pat ESCAPE '\': "%" matches any run of characters, "_" one
\* character, and the character after the escape matches itself
RECURSIVE like(_, _)
like(pat, txt) ==
    IF Len(pat) = 0 THEN Len(txt) = 0
    ELSE IF charAt(pat, 1) = "%"
         THEN \/ like(SubSeq(pat, 2, Len(pat)), txt)
              \/ Len(txt) > 0 /\ like(pat, SubSeq(txt, 2, Len(txt)))
    ELSE IF Len(txt) = 0 THEN FALSE
    ELSE IF charAt(pat, 1) = "_"
         THEN like(SubSeq(pat, 2, Len(pat)), SubSeq(txt, 2, Len(txt)))
    ELSE IF charAt(pat, 1) = "\\"
         THEN /\ Len(pat) >= 2
              /\ likeSame(charAt(pat, 2), charAt(txt, 1))
              /\ like(SubSeq(pat, 3, Len(pat)), SubSeq(txt, 2, Len(txt)))
    ELSE /\ likeSame(charAt(pat, 1), charAt(txt, 1))
         /\ like(SubSeq(pat, 2, Len(pat)), SubSeq(txt, 2, Len(txt)))

(***************************************************************************)
(* History (history.go)                                                    *)
(***************************************************************************)
\* text LIKE '%name%' ESCAPE '\' for one of the names
matches(row, names) ==
    \E i \in 1..Len(names) :
        like("%" \o escapeLike(names[i]) \o "%", textString(row.text))

\* an ORDER BY without its last term
historyBefore_noSequence(a, b) ==
    IF (a.valid_at = Null) # (b.valid_at = Null) THEN a.valid_at = Null
    ELSE IF a.valid_at # b.valid_at THEN strLess(a.valid_at, b.valid_at)
    ELSE FALSE

\* ORDER BY CASE WHEN valid_at IS NULL THEN 0 ELSE 1 END, valid_at ASC,
\* section_sequence ASC: row a sorts before row b
historyBefore(a, b) ==
    IF (a.valid_at = Null) # (b.valid_at = Null) THEN a.valid_at = Null
    ELSE IF a.valid_at # b.valid_at THEN strLess(a.valid_at, b.valid_at)
    ELSE a.section_sequence < b.section_sequence

\* the orders in which the database can return the rows: rows that the
\* ORDER BY does not tell apart come in any order
RECURSIVE historyOrders(_)
historyOrders(rows) ==
    IF rows = {} THEN {<< >>}
    ELSE UNION {{<< r >> \o rest : rest \in historyOrders(rows \ {r})} :
                r \in {x \in rows : \A y \in rows : ~historyBefore(y, x)}}

\* rows.Scan: a NULL valid_at is left as the empty string
HistoryResult(r) ==
    [ID |-> r.id, Text |-> r.text, SourceFile |-> r.source_file,
     SectionTitle |-> r.section_title, ParentTitle |-> r.parent_title,
     ValidAt |-> IF r.valid_at = Null THEN "" ELSE r.valid_at]

\* LIMIT n of an ordered result: a negative n is no limit
sqlLimit(rows, n) == IF n < 0 \/ n >= Len(rows) THEN rows ELSE SubSeq(rows, 1, n)

scanHistory(rows) == [i \in 1..Len(rows) |-> HistoryResult(rows[i])]

\* a History without the default of the limit
historyLimit_asGiven(limit) == limit

\* if limit <= 0 { limit = 20 }
historyLimit(limit) == IF limit <= 0 THEN 20 ELSE limit

\* the results History can return
History(tbl, m, entity, limit) ==
    {scanHistory(sqlLimit(o, historyLimit(limit))) :
        o \in historyOrders({r \in tbl : matches(r, resolveAliases(m, entity))})}

(***************************************************************************)
(* Search (search.go)                                                      *)
(***************************************************************************)
Abs(n) == IF n < 0 THEN -n ELSE n

\* The distance of two embeddings.  The geometry of the embedding model is
\* not in the source: the distance stands for it as a fixed function of the
\* two texts, the difference of their lengths.
distance(queryEmbedding, embedding) ==
    Abs(Len(queryEmbedding.of) - Len(textString(embedding.of)))

\* the orders by ascending distance; equal distances come in any order
RECURSIVE knnOrders(_, _)
knnOrders(vecs, queryEmbedding) ==
    IF vecs = {} THEN {<< >>}
    ELSE UNION {{<< v >> \o rest : rest \in knnOrders(vecs \ {v}, queryEmbedding)} :
                v \in {x \in vecs : \A y \in vecs :
                           distance(queryEmbedding, x.embedding)
                               <= distance(queryEmbedding, y.embedding)}}

\* JOIN chunks c ON c.id = v.chunk_id, and rows.Scan
SearchResult(v, c, queryEmbedding) ==
    [ID |-> v.chunk_id, Distance |-> distance(queryEmbedding, v.embedding),
     Text |-> c.text, SourceFile |-> c.source_file, SectionTitle |-> c.section_title,
     ParentTitle |-> c.parent_title, HeaderLevel |-> c.header_level,
     ValidAt |-> IF c.valid_at = Null THEN "" ELSE c.valid_at]

joined(nearest, tbl) == SelectSeq(nearest, LAMBDA v : \E c \in tbl : c.id = v.chunk_id)

scanSearch(vs, tbl, queryEmbedding) ==
    [i \in 1..Len(vs) |->
        SearchResult(vs[i], CHOOSE c \in tbl : c.id = vs[i].chunk_id, queryEmbedding)]

\* the k nearest vectors (v.k = ?), joined with their chunks (LIMIT ?)
knnQuery(o, tbl, queryEmbedding, fetchLimit) ==
    sqlLimit(scanSearch(joined(sqlLimit(o, fetchLimit), tbl), tbl, queryEmbedding),
             fetchLimit)

\* an as_of filter that drops the timeless results too
asOfKeeps_dated(res, asOf) == res.ValidAt # "" /\ ~strLess(asOf, res.ValidAt)

\* result.ValidAt == "" || result.ValidAt <= asOf
asOfKeeps(res, asOf) == res.ValidAt = "" \/ ~strLess(asOf, res.ValidAt)

asOfFilter(results, asOf) ==
    IF asOf # "" THEN SelectSeq(results, LAMBDA res : asOfKeeps(res, asOf)) ELSE results

\* a less function that puts the dated results first
searchLess_datedFirst(left, right) ==
    IF left.ValidAt = "" /\ right.ValidAt = "" THEN FALSE
    ELSE IF left.ValidAt = "" THEN FALSE
    ELSE IF right.ValidAt = "" THEN TRUE
    ELSE strLess(left.ValidAt, right.ValidAt)

\* the less function of the sort: timeless before dated, dated by date
searchLess(left, right) ==
    IF left.ValidAt = "" /\ right.ValidAt = "" THEN FALSE
    ELSE IF left.ValidAt = "" THEN TRUE
    ELSE IF right.ValidAt = "" THEN FALSE
    ELSE strLess(left.ValidAt, right.ValidAt)

\* where a stable sort puts x into the sorted sequence: behind every element
\* that is not greater than it
insertAt(sorted, x) ==
    IF \E k \in 1..Len(sorted) : ~searchLess(x, sorted[k])
    THEN Max({k \in 1..Len(sorted) : ~searchLess(x, sorted[k])}) + 1
    ELSE 1

insertStable(sorted, x, at) ==
    SubSeq(sorted, 1, at - 1) \o << x >> \o SubSeq(sorted, at, Len(sorted))

\* sort.SliceStable(results, less)
RECURSIVE sortStable(_, _)
sortStable(sorted, results) ==
    IF Computed(sorted) /\ results # << >>
    THEN sortStable(insertStable(sorted, Head(results), insertAt(sorted, Head(results))),
                    Tail(results))
    ELSE sorted

\* fetchLimit := limit; if asOf != "" { fetchLimit = limit * 3 }
fetchLimit(limit, asOf) == IF asOf # "" THEN limit * 3 ELSE limit

\* a Search that sorts by date first and cuts the sorted results at the limit
Search_sortFirst(tbl, vtbl, query, limit, asOf) ==
    {sqlLimit(sortStable(<< >>, asOfFilter(knnQuery(o, tbl, Embed(query),
                                                    fetchLimit(limit, asOf)), asOf)),
              limit) :
        o \in knnOrders(vtbl, Embed(query))}

\* the results Search can return when the query is embedded
Search(tbl, vtbl, query, limit, asOf) ==
    {sortStable(<< >>, sqlLimit(asOfFilter(knnQuery(o, tbl, Embed(query),
                                                    fetchLimit(limit, asOf)), asOf),
                                limit)) :
        o \in knnOrders(vtbl, Embed(query))}

\* what a call returned: the function, its arguments, the names it searched
\* for (History), whether it failed and its result
Answer(op, arg, limit, asOf, names, err, out) ==
    [op |-> op, arg |-> arg, limit |-> limit, asOf |-> asOf, names |-> names,
     err |-> err, out |-> out]
NoAnswer == Answer("none", "", 0, "", << >>, FALSE, << >>)

(***************************************************************************)
(* The documents the files can hold, as the lines of the file              *)
(***************************************************************************)
\* a document of ManySections sections that all mention "b": the last one is
\* undated, the others carry the same date
ManySections == 21
sectionLine(i) ==
    IF i % 2 = 0 THEN T("b", 1)
    ELSE IF i = 2 * ManySections - 1 THEN H2("Misc") ELSE H2("January 21, 2026")
manySections == [i \in 1..(2 * ManySections) |-> sectionLine(i)]

Docs == <<
    \* the document of TestIngestFile: four sections
    << H2("Architecture Decisions"), T("context", 3), Blank,
       H3("Database Selection"), T("engines", 8), Blank,
       H3("API Design"), T("shapes", 7), Blank,
       H2("Implementation Notes"), T("one chunk", 11) >>,
    \* dated header with a child, and an undated section: two chunks
    << H2("January 21, 2026"), H3("Part 1: Auth"), T("a", 1),
       H2("Summary"), T("c", 1) >>,
    \* an oversized section: three paragraphs, three chunks
    << H2("Big"), T("p1", 400), Blank, T("p2", 400), Blank, T("p3", 700) >>,
    \* a header without body before a section with one
    << H2("Empty"), H2("Notes of January 5, 2024"), T("d", 2) >>,
    \* the empty file
    << Blank >>,
    \* notes that mention names, under dated and undated headers
    << H2("January 21, 2026"), T("Bob pg", 2),
       H2("Notes of January 5, 2024"), T("BOB", 1),
       H2("Misc"), T("a_b 5%", 2) >>,
    << H2("Misc"), T("b Égo", 2),
       H2("Other"), T("axb égo", 2),
       H2("January 22, 2026"), T("b\\d", 1) >>,
    manySections
>>

\* the documents of the ingestion specifications, and those of the retrieval one
IngestDocs == 1..5
QueryDocs == {6, 7}
HistoryDocs == {6, 8}

\* Values of MNEME_ALIASES, each with the groups it spells out: the text left
\* of "=" and the names right of it.
AliasConfigs == <<
    [env |-> "", groups |-> << >>],
    [env |-> "pg=Pg,Bob", groups |-> << [alias |-> "pg", names |-> << "Pg", "Bob" >>] >>],
    [env |-> "x=Pg,Bob", groups |-> << [alias |-> "x", names |-> << "Pg", "Bob" >>] >>],
    [env |-> "a=Pg,Bob;b=bob,Égo",
     groups |-> << [alias |-> "a", names |-> << "Pg", "Bob" >>],
                   [alias |-> "b", names |-> << "bob", "Égo" >>] >>],
    [env |-> " Pg = Pg , Bob ;; =Go ; o",
     groups |-> << [alias |-> "Pg", names |-> << "Pg", "Bob" >>] >>]
>>
AliasEnvs == {AliasConfigs[i].env : i \in 1..Len(AliasConfigs)}

\* the arguments of the retrieval commands
Entities == {"BOB", "PG", "x", "b", "a_b", "%", "\\", "égo"}
Queries == {"bob", "pg and"}
AsOfs == {"", "2024-06-01", "2026-01-21"}

Paths == {"a.md", "b.md"}
ValidAts == {"", "2024-01-01"}
Sessions == {"s1", "s2"}
Kinds == {"oc", "cc", "fs"}

\* the "<scheme>://" of a tailer's sources
scheme(k) == IF k = "cc" THEN "watch-cc" ELSE "watch"

Faults ==
    {NoFault, Fault("read", 0), Fault("begin", 0), Fault("commit", 0)}
    \cup {Fault(at, 0) : at \in IgnoredErrors}
    \cup {Fault(at, n) : at \in {"embed", "insert", "vec"}, n \in 1..MaxFaultAt}

Range(f) == {f[x] : x \in DOMAIN f}

Result(op, src, err, hit, validAt, msgs) ==
    [op |-> op, src |-> src, err |-> err, hit |-> hit, validAt |-> validAt, msgs |-> msgs]
NoSource == FileSource("")
Step(op) == Result(op, NoSource, FALSE, "none", "", <<>>)

(***************************************************************************)
(* Initial state: an empty store, no tailer running                        *)
(***************************************************************************)
\* no transaction is open
NoTx == [open |-> FALSE]

InitStore(lim) ==
    /\ chunks = {} /\ vec_chunks = {} /\ messages = {} /\ vec_messages = {}
    /\ files = [p \in Paths |-> 1]
    /\ ext = [s \in Sessions |-> <<>>]
    /\ pc = "stopped"
    /\ kind \in lim.kinds
    /\ batchSize \in lim.batchSizes
    /\ session = "s1"
    /\ batchNum = 0
    /\ done = {}
    /\ retry = << >>
    /\ pending = << >>
    /\ seenCount = 0
    /\ result = Step("init")
    /\ atStart = {}
    /\ admitted = {}
    /\ polls = << >>
    /\ commits = << >>
    /\ used = [calls |-> 0, writes |-> 0, loadFails |-> 0, faults |-> 0, starts |-> 0]
    /\ limits = lim
    /\ aliasEnv \in lim.aliasEnvs
    /\ entityAliases = NoAliases
    /\ answer = NoAnswer
    /\ fileTx = NoTx

\* The store was created, and is open, under the default dimension.
InitWith(lim) ==
    /\ InitStore(lim)
    /\ EmbedDimension = DefaultDimension
    /\ vecDim = DefaultDimension

\* A fault is injected only while the limit allows, and only where it takes
\* effect (a fault at a call that is never made is no fault, and neither is
\* the failure of a DELETE that had nothing to delete).
Injected(fault, r) ==
    fault # NoFault =>
        /\ used.faults < limits.faults
        /\ IF fault.at \in IgnoredErrors THEN r.eff ELSE r.hit = fault.at
Cost(fault) == IF fault = NoFault THEN 0 ELSE 1

(***************************************************************************)
(* The file system and the ingest command                                  *)
(***************************************************************************)
WriteFile(p, d) ==
    /\ used.writes < limits.writes
    /\ p \in limits.paths
    /\ d \in limits.docs
    /\ files[p] # d
    /\ files' = [files EXCEPT ![p] = d]
    /\ used' = [used EXCEPT !.writes = @ + 1]
    /\ result' = Step("WriteFile")
    /\ UNCHANGED << store, ext, kind, batchSize, tailer, atStart, admitted, polls,
                    commits, limits, retrieval, schema, fileTx >>

\* what a call of IngestFile leaves
IngestFileReturn(r, filePath, validAt, fault) ==
    /\ Injected(fault, r)
    /\ chunks' = r.chunks
    /\ vec_chunks' = r.vec_chunks
    /\ used' = [used EXCEPT !.calls = @ + 1, !.faults = @ + Cost(fault)]
    /\ result' = Result("IngestFile", FileSource(filePath), r.err, r.hit, validAt, <<>>)

IngestFile(filePath, validAt, fault) ==
    /\ used.calls < limits.calls
    /\ filePath \in limits.paths
    /\ IngestFileReturn(IngestFileRun(chunks, vec_chunks, FileSource(filePath), validAt,
                                      Docs[files[filePath]], fault),
                        filePath, validAt, fault)
    /\ UNCHANGED << messages, vec_messages, files, ext, kind, batchSize, tailer, atStart,
                    admitted, polls, commits, limits, retrieval, schema, fileTx >>

(***************************************************************************)
(* The external conversation store                                         *)
(***************************************************************************)
Total == Len(ext["s1"]) + Len(ext["s2"])

\* a message is appended to session s
Arrive(s) ==
    /\ s \in limits.sessions
    /\ Total < limits.msgs
    /\ ext' = [ext EXCEPT ![s] = Append(@, Total + 1)]
    /\ result' = Step("Arrive")
    /\ UNCHANGED << store, files, kind, batchSize, tailer, history, limits, retrieval, schema, fileTx >>

(***************************************************************************)
(* The tailers: runWatch (db.go, watch.go) and runWatchCC                  *)
(***************************************************************************)
\* the attempts after which a message that does not load is given up
RetryLimit == 60

\* DELETE FROM vec_chunks WHERE chunk_id NOT IN (SELECT id FROM chunks)
sweepOrphans(vtbl, tbl) == {v \in vtbl : \E r \in tbl : r.id = v.chunk_id}

\* a tailer that numbers its first batch 0 whatever the store holds
startBatchNum_zero(tbl, sch, sessionID) == 0

\* SELECT MAX(CAST(REPLACE(source_file, prefix, '') AS INTEGER)) FROM chunks
\* WHERE source_file LIKE prefix%, plus one; 0 when no row matches.
startBatchNum(tbl, sch, sessionID) ==
    LET mine == {r.source_file.batch : r \in {x \in tbl : x.source_file.scheme = sch
                                               /\ x.source_file.name = sessionID}}
    IN IF mine = {} THEN 0 ELSE Max(mine) + 1

\* batchNum++
nextBatchNum(n) == n + 1

\* a startup that finds no message in the external source
getExistingMessageIDs_none(msgIDs) == {}

\* the ids of the messages the session holds: the skip set of a tailer at startup
getExistingMessageIDs(msgIDs) == Range(msgIDs)

\* a tailer that ingests when pending holds exactly batchSize messages
batchReady_exact(n, size) == n = size

\* len(pending) >= *batchSize
batchReady(n, size) == n >= size

\* startup, from InitDB to the first tick
Start(s) ==
    /\ pc = "stopped"
    /\ s \in limits.sessions
    /\ used.starts < limits.starts
    /\ pc' = "tailing"
    /\ session' = s
    /\ vec_chunks' = sweepOrphans(vec_chunks, chunks)
    /\ batchNum' = startBatchNum(chunks, scheme(kind), s)
    /\ done' = IF kind = "cc" THEN {} ELSE getExistingMessageIDs(ext[s])
    /\ seenCount' = IF kind = "cc" THEN Len(ext[s]) ELSE 0
    /\ retry' = << >>
    /\ pending' = << >>
    /\ atStart' = Range(ext[s])
    /\ admitted' = {}
    /\ polls' = << >>
    /\ used' = [used EXCEPT !.starts = @ + 1]
    /\ result' = Step("Start")
    /\ UNCHANGED << chunks, messages, vec_messages, files, ext, kind, batchSize, commits,
                    limits, retrieval, schema, fileTx >>

\* a loop over newMsgs that gives a message up the first time its load
\* returns nothing
RECURSIVE loadMessages_giveUpAtOnce(_, _, _)
loadMessages_giveUpAtOnce(st, newMsgs, failing) ==
    IF ~Computed(st) \/ newMsgs = <<>> THEN st
    ELSE loadMessages_giveUpAtOnce(
             IF Head(newMsgs) \in failing
             THEN [st EXCEPT !.done = @ \cup {Head(newMsgs)}]
             ELSE [st EXCEPT !.done = @ \cup {Head(newMsgs)},
                             !.pending = Append(@, textMessage(Head(newMsgs), session))],
             Tail(newMsgs), failing)

\* a loop over newMsgs that ends at the first message whose load returns
\* nothing
RECURSIVE loadMessages_break(_, _, _)
loadMessages_break(st, newMsgs, failing) ==
    IF ~Computed(st) \/ newMsgs = <<>> THEN st
    ELSE IF Head(newMsgs) \in failing
    THEN [st EXCEPT !.retry = [id \in DOMAIN @ \cup {Head(newMsgs)} |->
                                  IF id = Head(newMsgs)
                                  THEN (IF id \in DOMAIN @ THEN @[id] + 1 ELSE 1)
                                  ELSE @[id]]]
    ELSE loadMessages_break(
             [st EXCEPT !.done = @ \cup {Head(newMsgs)},
                        !.pending = Append(@, textMessage(Head(newMsgs), session))],
             Tail(newMsgs), failing)

\* the loop over newMsgs: a message whose load returns nothing is counted in
\* retry and given up after RetryLimit attempts; a loaded one is marked done
\* and appended to pending
RECURSIVE loadMessages(_, _, _)
loadMessages(st, newMsgs, failing) ==
    IF ~Computed(st) \/ newMsgs = <<>> THEN st
    ELSE LET msgID == Head(newMsgs)
             count == IF msgID \in DOMAIN st.retry THEN st.retry[msgID] + 1 ELSE 1
             without == [id \in DOMAIN st.retry \ {msgID} |-> st.retry[id]]
             st1 == IF msgID \in failing
                    THEN IF count > RetryLimit
                         THEN [st EXCEPT !.done = @ \cup {msgID}, !.retry = without]
                         ELSE [st EXCEPT !.retry = [id \in DOMAIN @ \cup {msgID} |->
                                                       IF id = msgID THEN count ELSE @[id]]]
                    ELSE [st EXCEPT !.done = @ \cup {msgID}, !.retry = without,
                                    !.pending = Append(@, textMessage(msgID, session))]
         IN loadMessages(st1, Tail(newMsgs), failing)

\* the source_file of the batch at hand: "<scheme>://<session>/batch-<batchNum>"
currentSource == WatchSource(scheme(kind), session, batchNum)

\* the four tables
theStore ==
    [chunks |-> chunks, vec_chunks |-> vec_chunks, messages |-> messages,
     vec_messages |-> vec_messages]

\* ingestBatch as the tailer of this kind calls it
callIngestBatch(msgs, fault, msgFault) ==
    IF kind = "fs" THEN ingestBatch_watch(theStore, currentSource, msgs, session, fault)
    ELSE ingestBatch(theStore, currentSource, msgs, session, fault, msgFault)

ids(msgs) == [i \in 1..Len(msgs) |-> msgs[i].MessageID]

\* the faults of one call of ingestBatch
BatchCost(fault, msgFault) == Cost(fault) + (IF msgFault = "ok" THEN 0 ELSE 1)

\* what a call of ingestBatch leaves: on an error the batch number and the
\* buffer stay as they are
IngestReturn(r, pending1, at, fault, msgFault, used1) ==
    /\ Injected(fault, r)
    /\ msgFault # "ok" => kind # "fs"
    /\ used.faults + BatchCost(fault, msgFault) <= limits.faults
    /\ chunks' = r.db.chunks
    /\ vec_chunks' = r.db.vec_chunks
    /\ messages' = r.db.messages
    /\ vec_messages' = r.db.vec_messages
    /\ used' = [used1 EXCEPT !.faults = @ + BatchCost(fault, msgFault)]
    /\ result' = Result("ingestBatch", currentSource, r.err, r.hit, at, ids(pending1))
    /\ IF r.err
       THEN /\ batchNum' = batchNum
            /\ pending' = pending1
            /\ commits' = commits
       ELSE /\ batchNum' = nextBatchNum(batchNum)
            /\ pending' = << >>
            /\ commits' = Append(commits, [src |-> currentSource, msgs |-> ids(pending1),
                                           run |-> used.starts, at |-> at,
                                           rows |-> rowsOf(r.db.chunks, currentSource)])

\* the end of a tick, and flushPending: ingest pending1 as batch batchNum
IngestPending(pending1, at, fault, msgFault, used1) ==
    IngestReturn(callIngestBatch(pending1, fault, msgFault), pending1, at, fault, msgFault,
                 used1)

\* a tick that leaves pending below the batch size
KeepPending(pending1, used1) ==
    /\ pending' = pending1
    /\ used' = used1
    /\ result' = Step("poll")
    /\ UNCHANGED << store, batchNum, commits >>

\* the body of the loop after a tick
EndOfTick(pending1, fault, msgFault, used1) ==
    IF batchReady(Len(pending1), batchSize)
    THEN IngestPending(pending1, "poll", fault, msgFault, used1)
    ELSE fault = NoFault /\ msgFault = "ok" /\ KeepPending(pending1, used1)

\* every id of the session, marked done or not
getNewMessages_all(msgIDs, doneIDs) == msgIDs

\* the ids of the session's messages that are not marked done, in order
getNewMessages(msgIDs, doneIDs) == SelectSeq(msgIDs, LAMBDA id : id \notin doneIDs)

\* the tick once its messages are loaded
PollLoaded(st, newMsgs, failing, fault, msgFault) ==
    /\ done' = st.done
    /\ retry' = st.retry
    /\ admitted' = admitted \cup (Range(newMsgs) \ failing)
    /\ polls' = IF Len(st.pending) > Len(pending)
                THEN Append(polls, Len(st.pending) - Len(pending)) ELSE polls
    /\ EndOfTick(st.pending, fault, msgFault,
                 [used EXCEPT !.loadFails = @ + Cardinality(failing)])

\* the tick over the new messages; the loads of `failing` return nothing
PollNew(newMsgs, failing, fault, msgFault) ==
    /\ failing \subseteq Range(newMsgs)
    /\ used.loadFails + Cardinality(failing) <= limits.loadFails
    /\ newMsgs # << >> \/ Len(pending) >= batchSize
    /\ PollLoaded(loadMessages([done |-> done, retry |-> retry, pending |-> pending],
                               newMsgs, failing),
                  newMsgs, failing, fault, msgFault)

\* one tick of runWatch (db.go, watch.go)
Poll(failing, fault, msgFault) ==
    /\ pc = "tailing"
    /\ kind # "cc"
    /\ PollNew(getNewMessages(ext[session], done), failing, fault, msgFault)
    /\ UNCHANGED << files, ext, pc, kind, batchSize, session, seenCount, atStart, limits,
                    retrieval, schema, fileTx >>

\* the messages of the transcript as textMessage values
readCCJSONL(msgIDs) == [i \in 1..Len(msgIDs) |-> textMessage(msgIDs[i], session)]

\* the tick over the grown transcript
PollCCNew(newMsgs, fault, msgFault) ==
    /\ admitted' = admitted \cup Range(newMsgs)
    /\ polls' = Append(polls, Len(newMsgs))
    /\ EndOfTick(pending \o readCCJSONL(newMsgs), fault, msgFault, used)

\* if len(allMsgs) <= seenCount { continue }: a tick of runWatchCC goes on
\* only when the transcript has grown
transcriptGrown == Len(ext[session]) > seenCount

\* one tick of runWatchCC that finds the transcript grown
PollCC(fault, msgFault) ==
    /\ pc = "tailing"
    /\ kind = "cc"
    /\ transcriptGrown
    /\ seenCount' = Len(ext[session])
    /\ PollCCNew(SubSeq(ext[session], seenCount + 1, Len(ext[session])), fault, msgFault)
    /\ UNCHANGED << files, ext, pc, kind, batchSize, session, done, retry, atStart, limits,
                    retrieval, schema, fileTx >>

\* SIGINT.  runWatch (db.go) and runWatchCC flush pending and return; watch.go
\* installs no handler, so the process ends where it is.
Interrupt(fault, msgFault) ==
    /\ pc = "tailing"
    /\ pc' = "stopped"
    /\ IF kind # "fs" /\ Len(pending) # 0
       THEN IngestPending(pending, "flush", fault, msgFault, used)
       ELSE /\ fault = NoFault /\ msgFault = "ok"
            /\ result' = Step("Interrupt")
            /\ UNCHANGED << store, batchNum, pending, commits, used >>
    /\ UNCHANGED << files, ext, kind, batchSize, session, done, retry, seenCount, atStart,
                    admitted, polls, limits, retrieval, schema, fileTx >>

(***************************************************************************)
(* insertMessages, called with messages of any content                     *)
(***************************************************************************)
\* the messages of a call: two ids, each as first seen and as edited since
MessagePool == {textMessage(1, "s1"), textMessage(2, "s1"), editedMessage(1), editedMessage(2)}
MessageLists == {<< m >> : m \in MessagePool} \cup {<< m, n >> : m, n \in MessagePool}

insertMessagesReturn(r, msgs) ==
    /\ messages' = r.messages
    /\ vec_messages' = r.vec_messages
    /\ result' = Result("insertMessages", NoSource, r.err, "none", "", msgs)
    /\ answer' = Answer("insertMessages", "", 0, "", << >>, r.err, << r.inserted >>)

insertMessagesCall(msgs, msgFault) ==
    /\ used.calls < limits.calls
    /\ insertMessagesReturn(insertMessages(messages, vec_messages, msgs, msgFault), msgs)
    /\ used' = [used EXCEPT !.calls = @ + 1]
    /\ UNCHANGED << chunks, vec_chunks, files, ext, kind, batchSize, tailer, atStart,
                    admitted, polls, commits, limits, aliasEnv, entityAliases, schema, fileTx >>

(***************************************************************************)
(* The retrieval commands                                                  *)
(***************************************************************************)
\* the start of a process: main loads the aliases
main ==
    /\ answer.op = "none"
    /\ entityAliases' = loadAliasesFromEnv(entityAliases, aliasEnv)
    /\ answer' = Answer("main", aliasEnv, 0, "", << >>, FALSE, << >>)
    /\ UNCHANGED << store, files, ext, kind, batchSize, tailer, history, result, limits,
                    aliasEnv, schema, fileTx >>

\* mneme search, and the search tool: the embedding of the query fails, or
\* Search returns one of its results
runSearch(question, limit, asOf, embedFails) ==
    /\ answer.op # "none"
    /\ IF embedFails
       THEN answer' = Answer("Search", question, limit, asOf, << >>, TRUE, << >>)
       ELSE \E out \in Search(chunks, vec_chunks, question, limit, asOf) :
                answer' = Answer("Search", question, limit, asOf, << >>, FALSE, out)
    /\ UNCHANGED << store, files, ext, kind, batchSize, tailer, history, result, limits,
                    aliasEnv, entityAliases, schema, fileTx >>

\* mneme history, and the history tool
runHistory(entity, limit) ==
    /\ answer.op # "none"
    /\ \E out \in History(chunks, entityAliases, entity, limit) :
           answer' = Answer("History", entity, limit, "",
                            resolveAliases(entityAliases, entity), FALSE, out)
    /\ UNCHANGED << store, files, ext, kind, batchSize, tailer, history, result, limits,
                    aliasEnv, entityAliases, schema, fileTx >>

Next ==
    \/ \E p \in Paths, d \in 1..Len(Docs) : WriteFile(p, d)
    \/ \E p \in Paths, v \in ValidAts, f \in Faults : IngestFile(p, v, f)
    \/ \E s \in Sessions : Arrive(s)
    \/ \E s \in Sessions : Start(s)
    \/ \E failing \in SUBSET Range(ext[session]), f \in Faults, mf \in {"ok", "tx", "embed"} :
          Poll(failing, f, mf)
    \/ \E f \in Faults, mf \in {"ok", "tx", "embed"} : PollCC(f, mf)
    \/ \E f \in Faults, mf \in {"ok", "tx", "embed"} : Interrupt(f, mf)

NextFile ==
    \/ \E p \in Paths, d \in 1..Len(Docs) : WriteFile(p, d)
    \/ \E p \in Paths, v \in ValidAts, f \in Faults : IngestFile(p, v, f)

NextWatch ==
    \/ \E s \in Sessions : Arrive(s)
    \/ \E s \in Sessions : Start(s)
    \/ \E failing \in SUBSET Range(ext[session]), f \in Faults, mf \in {"ok", "tx", "embed"} :
          Poll(failing, f, mf)
    \/ \E f \in Faults, mf \in {"ok", "tx", "embed"} : PollCC(f, mf)
    \/ \E f \in Faults, mf \in {"ok", "tx", "embed"} : Interrupt(f, mf)

Limits(c, w, m, l, f, st, ks, bs, ss, ps, ds, es) ==
    [calls |-> c, writes |-> w, msgs |-> m, loadFails |-> l, faults |-> f, starts |-> st,
     kinds |-> ks, batchSizes |-> bs, sessions |-> ss, paths |-> ps, docs |-> ds,
     aliasEnvs |-> es]

Init == InitWith(Limits(MaxCalls, MaxWrites, MaxMsgs, 0, MaxFaults, 1, Kinds, {2},
                        {"s1"}, {"a.md"}, {1, 4, 5}, {""}))
Spec == Init /\ [][Next]_vars

InitFile == InitWith(Limits(FileCalls, FileWrites, 0, 0, WatchFaults, 0, {"oc"}, {2},
                            {"s1"}, Paths, IngestDocs, {""}))
SpecFile == InitFile /\ [][NextFile]_vars

InitQuery == InitWith(Limits(QueryCalls, QueryWrites, 0, 0, 0, 0, {"oc"}, {2}, {"s1"},
                             {"a.md"}, QueryDocs, AliasEnvs))
\* The store is filled first; then a process starts and answers queries, so
\* that an answer in the state is one about the store in the state.
NextQuery ==
    \/ answer.op = "none" /\ \E p \in Paths, d \in 1..Len(Docs) : WriteFile(p, d)
    \/ answer.op = "none" /\ \E p \in Paths, v \in ValidAts, f \in Faults :
                                 IngestFile(p, v, f)
    \/ main
    \/ \E q \in Queries, k \in 0..MaxLimit, a \in AsOfs, e \in BOOLEAN : runSearch(q, k, a, e)
    \/ \E n \in Entities, k \in -1..MaxLimit : runHistory(n, k)
SpecQuery == InitQuery /\ [][NextQuery]_vars

InitMessages == InitWith(Limits(MessageCalls, 0, 0, 0, 0, 0, {"oc"}, {2}, {"s1"},
                                {}, {}, {""}))
NextMessages ==
    \E msgs \in MessageLists, msgFault \in {"none", "tx", "embed"} :
        insertMessagesCall(msgs, msgFault)
SpecMessages == InitMessages /\ [][NextMessages]_vars

\* History over a store with more rows than the default of the limit
InitHistory == InitWith(Limits(QueryCalls, QueryWrites, 0, 0, 0, 0, {"oc"}, {2}, {"s1"},
                               {"a.md"}, HistoryDocs, {"", "x=Pg,Bob"}))
NextHistory ==
    \/ answer.op = "none" /\ \E p \in Paths, d \in 1..Len(Docs) : WriteFile(p, d)
    \/ answer.op = "none" /\ \E p \in Paths, v \in ValidAts, f \in Faults :
                                 IngestFile(p, v, f)
    \/ main
    \/ \E n \in {"b", "bob"}, k \in -1..(ManySections + 1) : runHistory(n, k)
SpecHistory == InitHistory /\ [][NextHistory]_vars

InitWatch == InitWith(Limits(0, 0, WatchMsgs, WatchLoadFails, WatchFaults, WatchStarts,
                             Kinds, {2}, {"s1"}, {}, {}, {""}))
SpecWatch == InitWatch /\ [][NextWatch]_vars

InitScenario == InitWith(Limits(0, 0, ScenarioMsgs, 0, 0, 1, {"oc", "cc"}, {3},
                                {"s1"}, {}, {}, {""}))
SpecScenario == InitScenario /\ [][NextWatch]_vars

(***************************************************************************)
(* Properties                                                              *)
(***************************************************************************)
\* chunk rows and vector rows are 1:1
OneToOne(tbl, vtbl) ==
    /\ \A r \in tbl : Cardinality({v \in vtbl : v.chunk_id = r.id}) = 1
    /\ \A v \in vtbl : \E r \in tbl : r.id = v.chunk_id

\* the vector rows whose chunk_id matches no chunk row
Orphans(tbl, vtbl) == {v \in vtbl : ~\E r \in tbl : r.id = v.chunk_id}

\* what a chunk row holds of the chunk it was made from
chunkFields(r) ==
    [Text |-> r.text, SectionTitle |-> r.section_title, HeaderLevel |-> r.header_level,
     ParentTitle |-> r.parent_title, SectionSequence |-> r.section_sequence,
     ChunkSequence |-> r.chunk_sequence, ChunkTotal |-> r.chunk_total]

\* the chunks with text that the chunker yields for a content
chunkerOutput(content) ==
    LET sections == ParseMarkdown(content)
        of(section) == LET cs == ChunkSection(section, MaxWords)
                       IN {cs[i] : i \in {j \in 1..Len(cs) : TrimSpace(cs[j].Text) # <<>>}}
    IN UNION {of(sections[i]) : i \in 1..Len(sections)}

chunkerFields(c) ==
    [Text |-> c.Text, SectionTitle |-> c.SectionTitle, HeaderLevel |-> c.HeaderLevel,
     ParentTitle |-> c.ParentTitle, SectionSequence |-> c.SectionSequence,
     ChunkSequence |-> c.ChunkSequence, ChunkTotal |-> c.ChunkTotal]

\* the step is a successful IngestFile
IngestFileOk == result'.op = "IngestFile" /\ ~result'.err

\* C1: a successful IngestFile that starts from a store whose chunk rows and
\* vector rows are 1:1 leaves a store where every chunk row has exactly one
\* vector row and every vector row's chunk_id is the id of a chunk row.
C1_IngestFileKeepsOneToOne ==
    [][IngestFileOk /\ OneToOne(chunks, vec_chunks) => OneToOne(chunks', vec_chunks')]_vars

\* a successful IngestFile has written rows into a store that also holds the
\* rows of a tailer's batch, all 1:1
C1_Witness ==
    /\ result.op = "IngestFile" /\ ~result.err
    /\ rowsOf(chunks, result.src) # {}
    /\ \E r \in chunks : r.source_file.scheme # "file"
    /\ OneToOne(chunks, vec_chunks)

\* C2: after a successful IngestFile(S) on a store that holds chunks of S, the
\* chunk rows of S are exactly the chunks the chunker yields for the file's
\* content now (none of the prior ingest remains), and as many vector rows
\* join them.
C2_ReingestReplaces ==
    [][IngestFileOk /\ rowsOf(chunks, result'.src) # {} =>
         LET rows == rowsOf(chunks', result'.src)
             now == chunkerOutput(Docs[files[result'.src.name]])
         IN /\ {chunkFields(r) : r \in rows} = {chunkerFields(c) : c \in now}
            /\ Cardinality(rows) = Cardinality(now)
            /\ Cardinality({v \in vec_chunks' : \E r \in rows : r.id = v.chunk_id})
                 = Cardinality(now)]_vars

\* a file ingested, rewritten with a document of other sections, and ingested
\* again: the store holds the three chunks of the new content
C2_Witness ==
    /\ result.op = "IngestFile" /\ ~result.err
    /\ used.calls = 2 /\ used.writes = 1 /\ used.faults = 0
    /\ files[result.src.name] = 3
    /\ chunks # {} /\ \A r \in chunks : r.source_file = result.src

\* C3: in every state no two chunk rows share
\* (source_file, section_sequence, chunk_sequence).
C3_UniqueChunkKey ==
    \A r1, r2 \in chunks :
        (/\ r1.source_file = r2.source_file
         /\ r1.section_sequence = r2.section_sequence
         /\ r1.chunk_sequence = r2.chunk_sequence) => r1 = r2

\* a retried batch whose DELETE failed: the insert of a chunk that is already
\* there has been refused
C3_Witness ==
    /\ result.op = "ingestBatch" /\ result.err /\ result.hit = "unique"
    /\ rowsOf(chunks, result.src) # {}

\* C4: when an embedding call fails during IngestFile(S), IngestFile returns an
\* error and the chunk and vector tables are as they were before the call.
C4_EmbedFailureLeavesStore ==
    [][result'.op = "IngestFile" /\ result'.hit = "embed" =>
         result'.err /\ chunks' = chunks /\ vec_chunks' = vec_chunks]_vars

\* an embedding has failed in a re-ingest of S, and the rows of the earlier
\* ingest of S are in the store
C4_Witness ==
    /\ result.op = "IngestFile" /\ result.err /\ result.hit = "embed"
    /\ rowsOf(chunks, result.src) # {}
    /\ OneToOne(chunks, vec_chunks)


\* the messages of the committed batches
CommittedMsgs == UNION {Range(commits[i].msgs) : i \in 1..Len(commits)}

\* the number, the size and the occasion of every committed batch, in commit order
Batches ==
    [i \in 1..Len(commits) |->
        [n |-> commits[i].src.batch, size |-> Len(commits[i].msgs), at |-> commits[i].at]]

\* C5: an embedding that fails during a tailer's ingestBatch aborts the batch
\* before the store is touched: the call adds or removes no chunk row, no
\* vector row and no message row.
C5_EmbedFailureBeforeStore ==
    [][result'.op = "ingestBatch" /\ result'.hit = "embed" =>
         /\ chunks' = chunks /\ vec_chunks' = vec_chunks
         /\ messages' = messages /\ vec_messages' = vec_messages]_vars

\* C6: when the tailer has exited after an interrupt, every message it had
\* admitted to the pending buffer is in a committed batch.
C6_NothingLostOnInterrupt ==
    (pc = "stopped" /\ used.starts > 0) => admitted \subseteq CommittedMsgs

\* the scenario of C7: batch size 3, seven messages admitted over three polls
\* of 2, 2 and 3, then the interrupt; no ingest fails
C7_Scenario ==
    /\ batchSize = 3 /\ polls = << 2, 2, 3 >>
    /\ pc = "stopped" /\ used.starts = 1 /\ used.faults = 0

C10_NoOrphanAfterCommit ==
    (result.op \in {"IngestFile", "ingestBatch"} /\ ~result.err)
        => Orphans(chunks, vec_chunks) = {}

(***************************************************************************)
(* Startup                                                                 *)
(***************************************************************************)
\* InitDB opens the database file, sets the journal mode and the busy
\* timeout, and creates the tables that do not exist yet: it writes no row and
\* deletes none
InitDB(db) == db

\* C11: initialising the store deletes every orphan vector row, so whenever a
\* process opens the store, no vector row is left without its chunk row.
C11_InitDBSweepsOrphans ==
    Orphans(InitDB(theStore).chunks, InitDB(theStore).vec_chunks) = {}

(***************************************************************************)
(* Retrieval                                                               *)
(***************************************************************************)
SearchOk == answer.op = "Search" /\ ~answer.err

\* the chunk rows that have a vector row
Embedded == {c \in chunks : \E v \in vec_chunks : v.chunk_id = c.id}

InAnswer(c) == \E i \in 1..Len(answer.out) : answer.out[i].ID = c.id

\* C12: with an as_of, every dated result of Search has valid_at <= as_of, and
\* the filter drops no timeless chunk: when every vector was fetched and the
\* result was not cut at the limit, every timeless embedded chunk is in it.
C12_AsOfFilter ==
    (SearchOk /\ answer.asOf # "") =>
        /\ \A i \in 1..Len(answer.out) :
               answer.out[i].ValidAt # "" => ~strLess(answer.asOf, answer.out[i].ValidAt)
        /\ (/\ Cardinality(vec_chunks) <= fetchLimit(answer.limit, answer.asOf)
            /\ Len(answer.out) < answer.limit)
               => \A c \in Embedded : c.valid_at = Null => InAnswer(c)

C12_Witness ==
    /\ SearchOk /\ answer.asOf # ""
    /\ Len(answer.out) < answer.limit
    /\ \E c \in Embedded : c.valid_at = Null /\ InAnswer(c)
    /\ \E c \in Embedded : c.valid_at # Null /\ InAnswer(c)
    /\ \E c \in Embedded : c.valid_at # Null /\ ~InAnswer(c)

\* C13: the results of Search come timeless first, then dated by ascending
\* valid_at; results with the same valid_at, the timeless ones among them,
\* keep their order of ascending distance.
C13_SearchOrder ==
    SearchOk =>
        \A i, j \in 1..Len(answer.out) :
            i < j =>
                /\ answer.out[j].ValidAt = "" => answer.out[i].ValidAt = ""
                /\ (answer.out[i].ValidAt # "" /\ answer.out[j].ValidAt # "")
                       => ~strLess(answer.out[j].ValidAt, answer.out[i].ValidAt)
                /\ answer.out[i].ValidAt = answer.out[j].ValidAt
                       => answer.out[i].Distance <= answer.out[j].Distance

\* two timeless results apart in distance, and behind them a dated one that is
\* nearer than one of them
C13_Witness ==
    /\ SearchOk
    /\ Len(answer.out) = 3
    /\ answer.out[1].ValidAt = "" /\ answer.out[2].ValidAt = ""
    /\ answer.out[1].Distance < answer.out[2].Distance
    /\ answer.out[3].ValidAt # ""
    /\ answer.out[3].Distance < answer.out[2].Distance

HistoryOk == answer.op = "History" /\ ~answer.err

\* the chunk row of a result
rowOf(res) == CHOOSE c \in chunks : c.id = res.ID

\* C14: the results of History come timeless first, then by ascending
\* valid_at, and within the same valid_at by ascending section_sequence.
C14_HistoryOrder ==
    HistoryOk =>
        \A i, j \in 1..Len(answer.out) :
            i < j =>
                /\ answer.out[j].ValidAt = "" => answer.out[i].ValidAt = ""
                /\ (answer.out[i].ValidAt # "" /\ answer.out[j].ValidAt # "")
                       => ~strLess(answer.out[j].ValidAt, answer.out[i].ValidAt)
                /\ answer.out[i].ValidAt = answer.out[j].ValidAt
                       => rowOf(answer.out[i]).section_sequence
                              <= rowOf(answer.out[j]).section_sequence

\* two timeless results in the order of their sections, then a dated one
C14_Witness ==
    /\ HistoryOk
    /\ Len(answer.out) = 3
    /\ answer.out[1].ValidAt = "" /\ answer.out[2].ValidAt = ""
    /\ rowOf(answer.out[1]).section_sequence < rowOf(answer.out[2]).section_sequence
    /\ answer.out[3].ValidAt # ""

\* txt contains name, letter case aside
containsFold(txt, name) ==
    \E i \in 1..(Len(txt) - Len(name) + 1) :
        ToLower(SubSeq(txt, i, i + Len(name) - 1)) = ToLower(name)

\* the chunks whose text contains one of the names History searches for
Mentioning(entity) ==
    {c \in chunks :
        \E k \in 1..Len(resolveAliases(entityAliases, entity)) :
            containsFold(textString(c.text), resolveAliases(entityAliases, entity)[k])}

\* C15: History returns only chunks whose text contains, letter case aside,
\* one of the names of the entity as a literal substring, and returns all of
\* them when they are not more than the limit.
C15_HistoryMatches ==
    HistoryOk =>
        /\ \A i \in 1..Len(answer.out) : rowOf(answer.out[i]) \in Mentioning(answer.arg)
        /\ Cardinality(Mentioning(answer.arg))
               <= (IF answer.limit <= 0 THEN 20 ELSE answer.limit)
               => \A c \in Mentioning(answer.arg) : InAnswer(c)

\* the rows the WHERE clause of History selects
Selected(entity) == {c \in chunks : matches(c, resolveAliases(entityAliases, entity))}

\* C16: History returns at most L results when L > 0 and at most 20 when
\* L <= 0, and they are the first of the ordering: no selected row that was
\* left out sorts before a row that was returned.
C16_HistoryLimit ==
    HistoryOk =>
        /\ Len(answer.out) <= (IF answer.limit > 0 THEN answer.limit ELSE 20)
        /\ \A c \in Selected(answer.arg) :
               ~InAnswer(c) =>
                   \A i \in 1..Len(answer.out) : ~historyBefore(c, rowOf(answer.out[i]))

\* more than 20 rows are selected, no limit is given, and the row inserted
\* last is returned first
C16_Witness ==
    /\ HistoryOk
    /\ answer.limit <= 0
    /\ Cardinality(Selected(answer.arg)) > 20
    /\ Len(answer.out) = 20
    /\ \A c \in chunks : c.id <= answer.out[1].ID

\* the groups the configuration in force spells out
Groups == AliasConfigs[CHOOSE i \in 1..Len(AliasConfigs) : AliasConfigs[i].env = aliasEnv].groups

\* group g lists the entity, letter case aside
Lists(g, entity) ==
    \E k \in 1..Len(Groups[g].names) : ToLower(Groups[g].names[k]) = ToLower(entity)

C18_AliasKeyResolves ==
    HistoryOk =>
        \A g \in 1..Len(Groups) :
            ToLower(TrimSpaceStr(Groups[g].alias)) = ToLower(TrimSpaceStr(answer.arg))
                => answer.names = Groups[g].names

(***************************************************************************)
(* Dates of the chunks of a file                                           *)
(***************************************************************************)
\* the date ParseMarkdown gives the section of a row: extracted from its
\* header, or cascaded from the header above
headerDate(content, r) == ParseMarkdown(content)[r.section_sequence].ValidAt

\* C19: each chunk a successful IngestFile persists has the header date of its
\* section as valid_at when there is one, else the default_valid_at of the
\* call when one was given, else null.
C19_ValidAtSource ==
    [][IngestFileOk =>
         \A r \in rowsOf(chunks', result'.src) :
             r.valid_at =
                 IF headerDate(Docs[files[result'.src.name]], r) # ""
                 THEN headerDate(Docs[files[result'.src.name]], r)
                 ELSE IF result'.validAt # "" THEN result'.validAt ELSE Null]_vars

\* an ingest with a default date of a file with a dated and an undated
\* section: one row has the default, another keeps the date of its header
C19_Witness ==
    /\ result.op = "IngestFile" /\ ~result.err /\ result.validAt # ""
    /\ \E r \in rowsOf(chunks, result.src) : r.valid_at = result.validAt
    /\ \E r \in rowsOf(chunks, result.src) : r.valid_at \notin {result.validAt, Null}

(***************************************************************************)
(* Messages                                                                *)
(***************************************************************************)
\* the step is a call of insertMessages
Upserted == result'.op = "insertMessages"

idsOf(msgs) == {msgs[i].MessageID : i \in 1..Len(msgs)}

\* C20: upserting a message whose id is in the message table changes nothing:
\* the row keeps its session, role, timestamp and text, no second row of that
\* id and no vector row of that id is created, and the call does not count it
\* as inserted.
C20_UpsertKeepsRow ==
    [][Upserted =>
         \A r \in messages :
             /\ {x \in messages' : x.id = r.id} = {r}
             /\ {v \in vec_messages' : v.message_id = r.id}
                    = {v \in vec_messages : v.message_id = r.id}
             /\ answer'.out[1] <= Cardinality(idsOf(result'.msgs) \ {x.id : x \in messages})
      ]_vars

\* a call with two messages has inserted one: the other one was in the table,
\* with another session and another text than the call gave it, and it still is
C20_Witness ==
    /\ result.op = "insertMessages" /\ ~result.err
    /\ Len(result.msgs) = 2 /\ answer.out = << 1 >>
    /\ result.msgs[1].MessageID # result.msgs[2].MessageID
    /\ \E i \in 1..2 : \E r \in messages :
           /\ r.id = result.msgs[i].MessageID
           /\ r.session_id # result.msgs[i].SessionID
           /\ r.role # result.msgs[i].Role
           /\ r.timestamp # result.msgs[i].Timestamp
           /\ r.text # result.msgs[i].Text

(***************************************************************************)
(* The tailers, continued                                                  *)
(***************************************************************************)
\* C21: once ingestBatch has returned without error, every message row has
\* exactly one row in the message-vector index.
C21_MessageVectors ==
    (result.op = "ingestBatch" /\ ~result.err)
        => \A m \in messages : Cardinality({v \in vec_messages : v.message_id = m.id}) = 1

(***************************************************************************)
(* The embedding dimension of the store                                    *)
(***************************************************************************)
\* strconv.Atoi of the values the environment gives EMBED_DIM: an optional
\* sign, then digits only
digits == "0123456789"
digitOf(c) == (CHOOSE i \in 1..10 : charAt(digits, i) = c) - 1
isDigits(s) == Len(s) > 0 /\ \A i \in 1..Len(s) : \E k \in 1..10 : charAt(digits, k) = charAt(s, i)
RECURSIVE natOf(_)
natOf(s) == IF Len(s) = 0 THEN 0 ELSE natOf(SubSeq(s, 1, Len(s) - 1)) * 10 + digitOf(charAt(s, Len(s)))
Atoi(s) ==
    LET signed == Len(s) > 0 /\ charAt(s, 1) \in {"+", "-"}
        body == IF signed THEN SubSeq(s, 2, Len(s)) ELSE s
    IN  IF ~isDigits(body) THEN [d |-> 0, err |-> TRUE]
        ELSE [d |-> IF signed /\ charAt(s, 1) = "-" THEN 0 - natOf(body) ELSE natOf(body),
              err |-> FALSE]

\* loadEmbedDimension: the dimension a process works with, from the value the
\* variable has at process start and the environment variable EMBED_DIM
loadEmbedDimension(dimension, env) ==
    IF env # "" /\ ~Atoi(env).err /\ Atoi(env).d > 0 THEN Atoi(env).d ELSE dimension

\* buildSchema, executed: CREATE VIRTUAL TABLE IF NOT EXISTS creates the vector
\* tables with dimension dim when the store has none, and does nothing, and
\* reports nothing, when it has them
execSchema(stored, dim) == IF stored = 0 THEN dim ELSE stored

EmbedDims == {"", "768", "1024", "0", "-5", "abc", "384"}

\* A process starts with EMBED_DIM = env and opens the store: main loads the
\* dimension, InitDB executes the schema and cannot fail on the dimension.
openStore(env) ==
    /\ vecDim' = execSchema(vecDim, loadEmbedDimension(DefaultDimension, env))
    /\ EmbedDimension' = loadEmbedDimension(DefaultDimension, env)
    /\ answer' = Answer("InitDB", env, 0, "", << >>, FALSE, << >>)
    /\ UNCHANGED << store, files, ext, kind, batchSize, tailer, history, result, limits,
                    aliasEnv, entityAliases, fileTx >>

OpenCalls == 2
OpenWrites == 1
\* No store exists before the first process has opened it.
InitOpen ==
    /\ InitStore(Limits(OpenCalls, OpenWrites, 0, 0, 0, 0, {"oc"}, {2}, {"s1"}, {"a.md"},
                        {1, 2}, {""}))
    /\ EmbedDimension = DefaultDimension
    /\ vecDim = 0
\* The store is written under the dimension it was created with only: what the
\* vector tables do with a vector of another length is not in the source.
NextOpen ==
    \/ \E env \in EmbedDims : openStore(env)
    \/ \E p \in Paths, d \in 1..Len(Docs) : WriteFile(p, d)
    \/ answer.op = "InitDB" /\ EmbedDimension = vecDim
          /\ \E p \in Paths, v \in ValidAts, f \in Faults : IngestFile(p, v, f)
SpecOpen == InitOpen /\ [][NextOpen]_vars

\* C22: opening a store under a dimension other than the one it was created
\* with fails: no process holds the store open under a mismatched dimension.
C22_MismatchFailsAtInit ==
    (answer.op = "InitDB" /\ vecDim # EmbedDimension) => answer.err

(***************************************************************************)
(* The ingest tool (serve.go)                                              *)
(***************************************************************************)
\* the working directory of the server process
Cwd == "/w"

HasPrefix(s, prefix) == Len(prefix) <= Len(s) /\ SubSeq(s, 1, Len(prefix)) = prefix
Contains(s, sub) == \E i \in 1..(Len(s) - Len(sub) + 1) : SubSeq(s, i, i + Len(sub) - 1) = sub
IsAbs(path) == HasPrefix(path, "/")

\* filepath.Clean, element by element: empty elements and "." are dropped,
\* ".." removes the element before it, is dropped at the root, and is kept at
\* the start of a relative path
RECURSIVE cleanFrom(_, _, _, _)
cleanFrom(parts, i, kept, rooted) ==
    IF i > Len(parts) THEN kept
    ELSE IF parts[i] \in {"", "."} THEN cleanFrom(parts, i + 1, kept, rooted)
    ELSE IF parts[i] # ".." THEN cleanFrom(parts, i + 1, Append(kept, parts[i]), rooted)
    ELSE IF Len(kept) > 0 /\ kept[Len(kept)] # ".."
         THEN cleanFrom(parts, i + 1, SubSeq(kept, 1, Len(kept) - 1), rooted)
    ELSE IF rooted THEN cleanFrom(parts, i + 1, kept, rooted)
    ELSE cleanFrom(parts, i + 1, Append(kept, ".."), rooted)
RECURSIVE joinPath(_)
joinPath(parts) ==
    IF Len(parts) = 0 THEN ""
    ELSE IF Len(parts) = 1 THEN parts[1]
    ELSE parts[1] \o "/" \o joinPath(Tail(parts))
Clean(path) ==
    IF IsAbs(path) THEN "/" \o joinPath(cleanFrom(Split(path, "/"), 1, << >>, TRUE))
    ELSE IF cleanFrom(Split(path, "/"), 1, << >>, FALSE) = << >> THEN "."
    ELSE joinPath(cleanFrom(Split(path, "/"), 1, << >>, FALSE))

\* filepath.Abs
filepathAbs(path) == IF IsAbs(path) THEN Clean(path) ELSE Clean(Cwd \o "/" \o path)

\* validateIngestPath with the root compared as a string prefix, without the
\* separator
validateIngestPath_noSeparator(filePath, root) ==
    IF IsAbs(Clean(filePath))
    THEN IF root = "" THEN "no root"
         ELSE IF ~HasPrefix(Clean(filePath), filepathAbs(root)) THEN "outside root"
              ELSE ""
    ELSE IF Contains(Clean(filePath), "..") THEN "traversal"
    ELSE ""

\* validateIngestPath: "" for nil, or what the error is about
validateIngestPath(filePath, root) ==
    IF IsAbs(Clean(filePath))
    THEN IF root = "" THEN "no root"
         ELSE IF ~HasPrefix(Clean(filePath), filepathAbs(root) \o "/") /\ Clean(filePath) # filepathAbs(root)
              THEN "outside root"
              ELSE ""
    ELSE IF Contains(Clean(filePath), "..") THEN "traversal"
    ELSE ""

\* os.ReadFile: the file of the model that a path names, "" when it names none
fileAt(filePath) ==
    IF \E p \in Paths : filepathAbs(filePath) = Cwd \o "/" \o p
    THEN CHOOSE p \in Paths : filepathAbs(filePath) = Cwd \o "/" \o p
    ELSE ""

\* the handler of tool mneme_ingest, with MNEME_INGEST_ROOT = root: a path
\* that does not validate is answered with the error; any other path goes to
\* IngestFile as it was given
toolReturn(refused, file, filePath, validAt, root) ==
    /\ answer' = Answer("mneme_ingest", filePath, 0, root, << >>, refused # "" \/ file = "",
                        << >>)
    /\ IF refused # ""
       THEN /\ used' = [used EXCEPT !.calls = @ + 1]
            /\ UNCHANGED << chunks, vec_chunks, result >>
       ELSE IF file = ""
       THEN /\ used' = [used EXCEPT !.calls = @ + 1]
            /\ result' = Result("IngestFile", FileSource(filePath), TRUE, "read", validAt, <<>>)
            /\ UNCHANGED << chunks, vec_chunks >>
       ELSE IngestFileReturn(IngestFileRun(chunks, vec_chunks, FileSource(filePath), validAt,
                                           Docs[files[file]], NoFault),
                             filePath, validAt, NoFault)
mneme_ingest(filePath, validAt, root) ==
    /\ used.calls < limits.calls
    /\ toolReturn(validateIngestPath(filePath, root), fileAt(filePath), filePath, validAt, root)
    /\ UNCHANGED << messages, vec_messages, files, ext, kind, batchSize, tailer, atStart,
                    admitted, polls, commits, limits, aliasEnv, entityAliases, schema, fileTx >>

ToolPaths == {"a.md", "./b.md", "x/../a.md", "../w/a.md", "a..md", "x/..", "/w/a.md",
              "/w/x/../b.md", "/w/../etc/a.md", "/wx/a.md", "/w", "/etc/a.md", "//w//b.md"}
ToolRoots == {"", "/w", "/w/", "x/..", "/etc/..", "/"}
ToolCalls == 2
ToolWrites == 1
InitTool == InitWith(Limits(ToolCalls, ToolWrites, 0, 0, 0, 0, {"oc"}, {2}, {"s1"}, Paths,
                            {1, 2}, {""}))
NextTool ==
    \/ \E p \in Paths, d \in 1..Len(Docs) : WriteFile(p, d)
    \/ \E p \in ToolPaths, r \in ToolRoots : mneme_ingest(p, "", r)
SpecTool == InitTool /\ [][NextTool]_vars

\* a call of the tool: answer holds its argument and the root it ran under
toolCall == answer'.op = "mneme_ingest" /\ used'.calls = used.calls + 1

\* the cleaned absolute path c is the root or lies within it
Within(c, root) ==
    \/ c = filepathAbs(root)
    \/ HasPrefix(c, filepathAbs(root)) /\ (filepathAbs(root) = "/" \/ HasPrefix(c, filepathAbs(root) \o "/"))
MustReject(filePath, root) ==
    IF IsAbs(filePath) THEN ~(root # "" /\ Within(Clean(filePath), root))
    ELSE Contains(filePath, "..")
Refused == answer'.err /\ result' = result /\ chunks' = chunks /\ vec_chunks' = vec_chunks

\* C23, as stated: the tool rejects, without calling IngestFile, every
\* relative path that contains ".." and every absolute path unless a root is
\* configured and the cleaned path is the root or lies within it.
C23_AsStated ==
    [][toolCall /\ MustReject(answer'.arg, answer'.asOf) => Refused]_vars

\* C23: the tool rejects, without calling IngestFile, every relative path
\* whose cleaned form contains "..", and every absolute path unless a root is
\* configured and the cleaned path is the root or lies within it.
C23_RejectsUnsafePaths ==
    [][toolCall /\ (IF IsAbs(answer'.arg) THEN MustReject(answer'.arg, answer'.asOf)
                    ELSE Contains(Clean(answer'.arg), ".."))
          => Refused]_vars

\* the tool has refused a relative path that leaves the working directory,
\* and IngestFile was never called
C23_Witness ==
    /\ answer.op = "mneme_ingest" /\ answer.err
    /\ ~IsAbs(answer.arg) /\ Contains(Clean(answer.arg), "..")
    /\ result.op # "IngestFile" /\ chunks = {}

(***************************************************************************)
(* Chunks without text                                                     *)
(***************************************************************************)
\* the file IngestFile has just read has no text outside its headers
emptyFile(doc) == ParseMarkdown(doc) = << >>

\* C24: no chunk row has empty or whitespace-only text, whether IngestFile or
\* ingestBatch wrote it, and IngestFile of an empty file succeeds and leaves
\* the file without chunk rows.
C24_NoEmptyChunks ==
    /\ \A c \in chunks : TrimSpace(c.text) # << >>
    /\ (result.op = "IngestFile" /\ result.hit = "none" /\ emptyFile(Docs[files[result.src.name]]))
           => ~result.err /\ ~\E c \in chunks : c.source_file = result.src

\* IngestFile has ingested the empty file without error, and the store holds
\* the chunks a tailer batch wrote
C24_Witness ==
    /\ result.op = "IngestFile" /\ ~result.err
    /\ Docs[files[result.src.name]] = << Blank >>
    /\ \E c \in chunks : c.source_file.scheme # "file"

(***************************************************************************)
(* ChunkSection on its own                                                 *)
(***************************************************************************)
MaxLines == 4        \* lines of a section's content
MaxChunkWords == 3   \* the values of maxWords
ContentLines == {Blank, T("a", 1), T("b c", 2)}
Contents == UNION {[1..n -> ContentLines] : n \in 1..MaxLines}

\* a call of ChunkSection
chunkSection(content, maxWords) ==
    /\ answer' = Answer("ChunkSection", content, maxWords, "", << >>, FALSE,
                        ChunkSection(Section("S", 2, "", content, 1, ""), maxWords))
    /\ UNCHANGED << store, files, ext, kind, batchSize, tailer, history, result, limits,
                    aliasEnv, entityAliases, schema, fileTx >>
InitChunk == InitWith(Limits(0, 0, 0, 0, 0, 0, {"oc"}, {2}, {"s1"}, {}, {}, {""}))
NextChunk == \E content \in Contents, maxWords \in 1..MaxChunkWords : chunkSection(content, maxWords)
SpecChunk == InitChunk /\ [][NextChunk]_vars

paragraphsOf(content) == Len(splitParagraphs(content, << >>, << >>))

RetryMsgs == 2         \* messages in the external store
RetryLoadFails == 62   \* loads that return nothing, over all messages
InitRetry == InitWith(Limits(0, 0, RetryMsgs, RetryLoadFails, 0, 1, {"oc", "fs"}, {2},
                             {"s1"}, {}, {}, {""}))
PollRetry == \E failing \in SUBSET Range(ext[session]) : Poll(failing, NoFault, "ok")
NextRetry ==
    \/ \E s \in Sessions : Arrive(s)
    \/ \E s \in Sessions : Start(s)
    \/ PollRetry
    \/ Interrupt(NoFault, "ok")
SpecRetry == InitRetry /\ [][NextRetry]_vars

\* the ids of the messages that a committed batch held
flushed == UNION {Range(commits[i].msgs) : i \in 1..Len(commits)}

\* C26, as stated: the skip set of a running tailer holds only ids present at
\* startup and ids of messages flushed in a committed batch.
C26_AsStated ==
    (pc = "tailing" /\ kind # "cc") => done \subseteq atStart \cup flushed

\* C26: an id enters the skip set when its message is loaded into pending,
\* flushed or not, or when it is given up after RetryLimit failed loads; an
\* id that is being retried is not in the skip set.
C26_SkipSet ==
    [][/\ pc' = "tailing" =>
            /\ DOMAIN retry' \cap done' = {}
            /\ Range(ids(pending')) \subseteq done'
       /\ (pc = "tailing" /\ pc' = "tailing") =>
            \A id \in done' \ done :
                \/ id \in Range(ids(pending'))
                \/ result'.op = "ingestBatch" /\ id \in Range(result'.msgs)
                \/ id \in DOMAIN retry /\ retry[id] = RetryLimit
      ]_vars

\* the skip set holds a message that is pending and one that was given up
C26_Witness ==
    /\ pc = "tailing" /\ Len(pending) = 1
    /\ pending[1].MessageID \in done \ (atStart \cup flushed)
    /\ \E id \in done \ (atStart \cup admitted) : id \notin DOMAIN retry

\* C27: a message is given up at its 60th failed load, so no message that is
\* still being retried has failed to load 60 times.
C27_GivenUpAtSixty ==
    pc = "tailing" => \A id \in DOMAIN retry : retry[id] < RetryLimit

\* A poll can be made when the tailer runs and has something to do: with no
\* message failing and no fault, Poll has no other guard.
PollEnabled ==
    /\ pc = "tailing" /\ kind # "cc"
    /\ getNewMessages(ext[session], done) # << >> \/ Len(pending) >= batchSize

\* The ticker fires for as long as the tailer runs, and a tick finds the
\* loop ready: a poll that can be made is made.  This is weak fairness of
\* the poll, with ENABLED << PollRetry >>_vars written out as PollEnabled.
FairPolling == []<>(~PollEnabled) \/ []<><< PollRetry >>_vars
SpecRetryFair == SpecRetry /\ FairPolling

\* the failed loads of id so far, while it is being retried
failedLoads(r, id) == IF id \in DOMAIN r THEN r[id] ELSE 0

\* C28: under fair polling every message that appears after startup leaves
\* the retry state, admitted or given up, unless the tailer is stopped first;
\* and a poll deals with each of its new messages, whichever of them fail to
\* load: each one is admitted or given up, or has one failed load more.
C28_RetryEnds ==
    /\ \A id \in 1..RetryMsgs :
           (pc = "tailing" /\ id \in Range(ext[session]) \ (atStart \cup done))
               ~> (id \in done \/ pc = "stopped")
    /\ [][(pc = "tailing" /\ pc' = "tailing" /\ << done, retry >>' # << done, retry >>) =>
              \A id \in Range(ext[session]) \ done :
                  \/ id \in done' /\ id \notin DOMAIN retry'
                  \/ id \notin done' /\ failedLoads(retry', id) = failedLoads(retry, id) + 1
         ]_vars

\* a message was given up, and a message that arrived after it was admitted
\* while it was failing
C28_Witness ==
    /\ pc = "tailing"
    /\ \E id \in done \ (atStart \cup admitted), other \in admitted :
           other > id /\ id \notin DOMAIN retry

(***************************************************************************)
(* A batch whose write fails                                               *)
(***************************************************************************)
\* the chunk rows that have no vector row
Unembedded(tbl, vtbl) == {c \in tbl : ~\E v \in vtbl : v.chunk_id = c.id}

\* C29: a tailer that has started again finds no chunk row without a vector:
\* the rows that a failed vector insert of the run before left behind are
\* given their vector or removed by then.
C29_ReconciledAfterRestart ==
    (pc = "tailing" /\ used.starts >= 2) => Unembedded(chunks, vec_chunks) = {}

\* the vector rows of the chunk rows of a source
vectorsOf(tbl, vtbl, sourceFile) ==
    {v \in vtbl : \E r \in rowsOf(tbl, sourceFile) : r.id = v.chunk_id}

\* C30: when the transaction of ingestBatch (db.go) does not begin, or is
\* rolled back, the chunk rows the source had and their vector rows are all
\* still there.
C30_RollbackKeepsOldRows ==
    [][(/\ result'.op = "ingestBatch" /\ result'.err /\ kind # "fs"
        /\ result'.hit \in {"begin", "insert", "commit", "unique"}
        /\ result' # result)
          => /\ rowsOf(chunks, result'.src) \subseteq chunks'
             /\ vectorsOf(chunks, vec_chunks, result'.src) \subseteq vec_chunks'
      ]_vars

(***************************************************************************)
(* IngestFile statement by statement, and a reader on another connection   *)
(***************************************************************************)
\* a read that sees what the open transaction has written so far
readerView_uncommitted(committed, working) == working

\* db.Query on the pool while IngestFile holds tx: the statement runs on
\* another connection and reads the committed tables
readerView(committed, working) == committed

\* tx, err := db.Begin(), after the file is read and parsed
txBegin(filePath, validAt) ==
    /\ ~fileTx.open
    /\ used.calls < limits.calls
    /\ filePath \in limits.paths
    /\ fileTx' = [open |-> TRUE, path |-> filePath, validAt |-> validAt, doc |-> files[filePath],
              phase |-> "delvec",
              todo |-> sectionChunks(ParseMarkdown(Docs[files[filePath]]), validAt),
              st |-> [err |-> FALSE, hit |-> "none", chunks |-> chunks,
                      vec_chunks |-> vec_chunks, n |-> 0, created |-> 0]]
    /\ used' = [used EXCEPT !.calls = @ + 1]
    /\ result' = Step("Begin")
    /\ UNCHANGED << store, files, ext, kind, batchSize, tailer, atStart, admitted, polls,
                    commits, limits, retrieval, schema >>

\* the next tx.Exec of IngestFile: the two DELETEs, then one iteration of the
\* loop over the chunks
txStatement(t, fault) ==
    IF t.phase = "delvec"
    THEN [t EXCEPT !.phase = "delchunks",
                   !.st.vec_chunks = deleteVecsOf(@, t.st.chunks, FileSource(t.path))]
    ELSE IF t.phase = "delchunks"
    THEN [t EXCEPT !.phase = "loop",
                   !.st.chunks = deleteChunksOf(@, FileSource(t.path))]
    ELSE [t EXCEPT !.todo = Tail(@),
                   !.st = ingestFileChunk(@, Head(t.todo), FileSource(t.path), fault)]

txExec(at) ==
    /\ fileTx.open /\ ~fileTx.st.err
    /\ fileTx.phase = "loop" => fileTx.todo # << >>
    /\ at # "none" => fileTx.phase = "loop" /\ used.faults < limits.faults
    /\ fileTx' = txStatement(fileTx, Fault(at, fileTx.st.n + 1))
    /\ used' = [used EXCEPT !.faults = @ + (IF at = "none" THEN 0 ELSE 1)]
    /\ result' = Step("Exec")
    /\ UNCHANGED << store, files, ext, kind, batchSize, tailer, atStart, admitted, polls,
                    commits, limits, retrieval, schema >>

\* the end of IngestFile: tx.Commit, or the deferred tx.Rollback after an
\* error return
txEnd(commitFails) ==
    /\ fileTx.open
    /\ fileTx.st.err \/ (fileTx.phase = "loop" /\ fileTx.todo = << >>)
    /\ commitFails => ~fileTx.st.err /\ used.faults < limits.faults
    /\ fileTx' = NoTx
    /\ chunks' = IF fileTx.st.err \/ commitFails THEN txRollback(chunks, fileTx.st.chunks)
                 ELSE fileTx.st.chunks
    /\ vec_chunks' = IF fileTx.st.err \/ commitFails THEN txRollback(vec_chunks, fileTx.st.vec_chunks)
                     ELSE fileTx.st.vec_chunks
    /\ used' = [used EXCEPT !.faults = @ + (IF commitFails THEN 1 ELSE 0)]
    /\ result' = Result("IngestFile", FileSource(fileTx.path), fileTx.st.err \/ commitFails,
                        IF fileTx.st.err THEN fileTx.st.hit ELSE IF commitFails THEN "commit" ELSE "none",
                        fileTx.validAt, <<>>)
    /\ UNCHANGED << messages, vec_messages, files, ext, kind, batchSize, tailer, atStart,
                    admitted, polls, commits, limits, retrieval, schema >>

\* what a reader finds in the two tables
seenChunks == IF fileTx.open THEN readerView(chunks, fileTx.st.chunks) ELSE chunks
seenVecs == IF fileTx.open THEN readerView(vec_chunks, fileTx.st.vec_chunks) ELSE vec_chunks

\* Search, called while IngestFile is running
searchDuring(question, limit) ==
    /\ fileTx.open
    /\ \E out \in Search(seenChunks, seenVecs, question, limit, "") :
           answer' = Answer("Search", question, limit, "", << >>, FALSE, out)
    /\ result' = Step("Search")
    /\ UNCHANGED << store, files, ext, kind, batchSize, tailer, history, limits, aliasEnv,
                    entityAliases, schema, fileTx >>

ReaderCalls == 2
ReaderWrites == 1
ReaderFaults == 1
InitReader == InitWith(Limits(ReaderCalls, ReaderWrites, 0, 0, ReaderFaults, 0, {"oc"}, {2},
                              {"s1"}, {"a.md"}, {2, 4}, {""}))
NextReader ==
    \/ \E p \in Paths, d \in 1..Len(Docs) : WriteFile(p, d)
    \/ \E p \in Paths, v \in {""} : txBegin(p, v)
    \/ \E at \in {"none", "embed", "insert", "vec"} : txExec(at)
    \/ \E commitFails \in BOOLEAN : txEnd(commitFails)
    \/ \E k \in {1, 3} : searchDuring("bob", k)
SpecReader == InitReader /\ [][NextReader]_vars

\* the rows of the source IngestFile is writing, as a reader finds them
seenOf(tbl, vtbl, sourceFile) ==
    << rowsOf(tbl, sourceFile), vectorsOf(tbl, vtbl, sourceFile) >>

\* what IngestFile as a whole makes of the tables it started from
ingested(t) ==
    IngestFileRun(chunks, vec_chunks, FileSource(t.path), t.validAt, Docs[t.doc], NoFault)
oldOrNew(new, seen) ==
    \/ seen = seenOf(chunks, vec_chunks, FileSource(fileTx.path))
    \/ seen = seenOf(new.chunks, new.vec_chunks, FileSource(fileTx.path))

\* C31: from the Begin of IngestFile(S) to its end a reader finds, for S, the
\* rows and vectors S had at the Begin or the rows and vectors of the whole
\* new ingest, every row with its vector; and what Search returns of S while
\* IngestFile runs are rows S had at the Begin.
C31_ReaderSeesOldOrNew ==
    [][fileTx.open =>
          /\ oldOrNew(ingested(fileTx), seenOf(seenChunks', seenVecs', FileSource(fileTx.path)))
          /\ Unembedded(rowsOf(seenChunks', FileSource(fileTx.path)), seenVecs') = {}
          /\ (result'.op = "Search") =>
                 \A i \in 1..Len(answer'.out) :
                     \E r \in chunks : r.id = answer'.out[i].ID /\ r.text = answer'.out[i].Text
      ]_vars

\* a Search has returned the chunk S had before, while the transaction of
\* IngestFile(S) had deleted S's rows and not yet replaced them
C31_Witness ==
    /\ fileTx.open /\ fileTx.phase = "loop" /\ fileTx.todo # << >>
    /\ rowsOf(fileTx.st.chunks, FileSource(fileTx.path)) = {}
    /\ result.op = "Search"
    /\ \E i \in 1..Len(answer.out) : answer.out[i].SourceFile = FileSource(fileTx.path)

(***************************************************************************)
(* A batch that fails in the tailing loop                                  *)
(***************************************************************************)
\* the last step was a tick whose ingestBatch returned an error
failedAtPoll ==
    pc = "tailing" /\ result.op = "ingestBatch" /\ result.err /\ result.validAt = "poll"

\* the next tick gets as far as the test of the batch size
nextTickIngests == IF kind = "cc" THEN transcriptGrown ELSE PollEnabled

\* C32: after an ingestBatch that failed in the tailing loop the batch number
\* is the one of the failed call, pending holds the messages of the failed
\* call, and the next tick calls ingestBatch again.
C32_FailedBatchRetried ==
    failedAtPoll =>
        /\ currentSource = result.src
        /\ ids(pending) = result.msgs
        /\ nextTickIngests

(***************************************************************************)
(* Admission and batches of one tailer run                                 *)
(***************************************************************************)
\* the positions in commits of the batches of the run at hand
ownBatches == {i \in 1..Len(commits) : commits[i].run = used.starts}

NoRepeat(seq) == \A i, j \in 1..Len(seq) : seq[i] = seq[j] => i = j

\* C33: in a tailer run no message is admitted to pending twice, and every
\* admitted message is either still in pending or in exactly one of the
\* batches the run has ingested successfully, never both, a batch whose
\* ingestBatch failed and was retried included.
C33_AdmittedOnceBatchedOnce ==
    /\ NoRepeat(ids(pending))
    /\ Range(ids(pending)) \subseteq admitted
    /\ \A i \in ownBatches :
          /\ NoRepeat(commits[i].msgs)
          /\ Range(commits[i].msgs) \subseteq admitted
          /\ Range(commits[i].msgs) \cap Range(ids(pending)) = {}
          /\ \A j \in ownBatches : i # j => Range(commits[i].msgs) \cap Range(commits[j].msgs) = {}
    /\ \A id \in admitted :
          \/ id \in Range(ids(pending))
          \/ \E i \in ownBatches : id \in Range(commits[i].msgs)

\* the first poll admitted a full batch whose ingestBatch failed; the batch
\* committed after the second poll holds it and the message admitted since
C33_Witness ==
    /\ polls = << 2, 1 >>
    /\ pending = << >>
    /\ \E i \in ownBatches : Len(commits[i].msgs) = 3
    /\ used.faults > 0

(***************************************************************************)
(* Which chunks Search returns                                             *)
(***************************************************************************)
\* the distance of a vector row from the query of the answer
fromQuery(v) == distance(Embed(answer.arg), v.embedding)

\* the sets Search can fetch: n vector rows (all of them when there are
\* fewer), none of them farther from the query than a row left out
Nearest(n) ==
    {N \in SUBSET vec_chunks :
        /\ Cardinality(N) = Min({n, Cardinality(vec_chunks)})
        /\ \A v \in N, u \in vec_chunks \ N : fromQuery(v) <= fromQuery(u)}

\* the fetched rows whose chunk passes the as_of filter
Passing(N) ==
    {v \in N : \E c \in chunks :
        /\ c.id = v.chunk_id
        /\ \/ answer.asOf = ""
           \/ c.valid_at = Null
           \/ ~strLess(answer.asOf, c.valid_at)}

AnswerIDs == {answer.out[i].ID : i \in 1..Len(answer.out)}

\* C34: the chunks Search(q, K, as_of) returns are the K nearest (all, when
\* there are fewer) of the chunks that pass the as_of filter among the K'
\* nearest, K' = K without as_of and 3K with it: the cut at K is by distance,
\* and the sort by date changes the order of the results only.
C34_NearestOfThePassing ==
    SearchOk =>
        /\ NoRepeat([i \in 1..Len(answer.out) |-> answer.out[i].ID])
        /\ \E N \in Nearest(IF answer.asOf # "" THEN 3 * answer.limit ELSE answer.limit) :
              /\ AnswerIDs \subseteq {v.chunk_id : v \in Passing(N)}
              /\ Len(answer.out) = Min({answer.limit, Cardinality(Passing(N))})
              /\ \A v \in Passing(N), i \in 1..Len(answer.out) :
                     v.chunk_id \notin AnswerIDs => answer.out[i].Distance <= fromQuery(v)

\* a search with as_of: a chunk that passes the filter was cut off at the
\* limit, and the sort put the results in another order than that of distance
C34_Witness ==
    /\ SearchOk /\ answer.asOf # ""
    /\ Len(answer.out) = answer.limit
    /\ \E i, j \in 1..Len(answer.out) : i < j /\ answer.out[j].Distance < answer.out[i].Distance
    /\ \E v \in Passing(vec_chunks) : v.chunk_id \notin AnswerIDs

(***************************************************************************)
(* What IngestFile leaves alone                                            *)
(***************************************************************************)
\* the chunk rows of the other sources, and their vector rows
otherRows(tbl, sourceFile) == {r \in tbl : r.source_file # sourceFile}
otherVectors(tbl, vtbl, sourceFile) ==
    {v \in vtbl : \E r \in otherRows(tbl, sourceFile) : r.id = v.chunk_id}

\* C35: IngestFile(S), whether it returns an error or not, leaves every chunk
\* row whose source_file is not S, and the vector row of every such chunk,
\* as it was.
C35_OtherSourcesUntouched ==
    [][(result'.op = "IngestFile" /\ used'.calls = used.calls + 1) =>
          /\ otherRows(chunks', result'.src) = otherRows(chunks, result'.src)
          /\ otherVectors(chunks', vec_chunks', result'.src)
                 = otherVectors(chunks, vec_chunks, result'.src)]_vars

\* the third IngestFile has returned: the store holds rows of its file and
\* newer rows, with their vectors, of the other file
C35_Witness ==
    /\ result.op = "IngestFile"
    /\ used.calls = 3
    /\ otherVectors(chunks, vec_chunks, result.src) # {}
    /\ \E r \in rowsOf(chunks, result.src), o \in otherRows(chunks, result.src) : r.id < o.id

(***************************************************************************)
(* The dates of the chunks of a batch                                      *)
(***************************************************************************)
\* the chunk rows the tailers wrote
batchRows == {r \in chunks : r.source_file.scheme # "file"}

\* C36: every chunk row written by ingestBatch has a valid_at that is not
\* NULL: no chunk of a batch is timeless.
C36_BatchChunksDated == \A r \in batchRows : r.valid_at # Null

(***************************************************************************)
(* The chunks of an oversized section                                      *)
(***************************************************************************)
\* the paragraphs of the chunks, in the order of the chunks
RECURSIVE chunkParagraphs(_)
chunkParagraphs(cs) ==
    IF cs = << >> THEN << >>
    ELSE splitParagraphs(Head(cs).Text, << >>, << >>) \o chunkParagraphs(Tail(cs))

Oversized == answer.op = "ChunkSection" /\ countWords(answer.arg) > answer.limit

\* C39: when ChunkSection splits a section of more than maxWords words, every
\* chunk has at most maxWords words or is one paragraph, and the paragraphs
\* of the chunks, read chunk after chunk, are the paragraphs of the section
\* in their order, each once.
C39_ParagraphsPacked ==
    Oversized =>
        /\ \A i \in 1..Len(answer.out) :
               \/ countWords(answer.out[i].Text) <= answer.limit
               \/ paragraphsOf(answer.out[i].Text) = 1
        /\ chunkParagraphs(answer.out) = splitParagraphs(answer.arg, << >>, << >>)

\* a paragraph of more words than maxWords came after a chunk was begun: the
\* chunk before it was closed and the paragraph is a chunk of its own
C39_Witness ==
    /\ Oversized
    /\ Len(answer.out) = 2
    /\ countWords(answer.out[1].Text) <= answer.limit
    /\ countWords(answer.out[2].Text) > answer.limit
    /\ paragraphsOf(answer.out[2].Text) = 1

(***************************************************************************)
(* ParseMarkdown on its own                                                *)
(***************************************************************************)
ParseLines == 4      \* lines of a document
\* the lines of the documents: headers with and without a date, headers with
\* nothing behind the marker, text and empty lines
DocLines ==
    {H2("A"), H2("January 21, 2026"), H2(""), H3("B"), H3("January 22, 2026"), H3(""),
     T("x", 1), T("y", 1), Blank}
Documents == UNION {[1..n -> DocLines] : n \in 1..ParseLines}

\* the call of ParseMarkdown of a process that parses one document
parseMarkdown(content) ==
    /\ answer.op = "none"
    /\ answer' = Answer("ParseMarkdown", content, 0, "", << >>, FALSE, ParseMarkdown(content))
    /\ UNCHANGED << store, files, ext, kind, batchSize, tailer, history, result, limits,
                    aliasEnv, entityAliases, schema, fileTx >>
InitParse == InitWith(Limits(0, 0, 0, 0, 0, 0, {"oc"}, {2}, {"s1"}, {}, {}, {""}))
NextParse == \E content \in Documents : parseMarkdown(content)
SpecParse == InitParse /\ [][NextParse]_vars

Parsed == answer.op = "ParseMarkdown"

\* the positions of the lines of a kind
linesOf(content, k) == {i \in 1..Len(content) : content[i].k = k}

\* the emitted sections of a level, in their order; the section of the text
\* before the first header is not among those of level 2
emitted(level) ==
    SelectSeq(answer.out, LAMBDA sec : sec.HeaderLevel = level /\ sec.Title # "Preamble")

\* the positions of a set, in ascending order
RECURSIVE ascending(_)
ascending(S) == IF S = {} THEN << >> ELSE << Min(S) >> \o ascending(S \ {Min(S)})

\* the date a level-3 header at position i is to have: its own, or that of
\* the last level-2 header before it, or none
cascade(content, i) ==
    LET before == {j \in linesOf(content, "h2") : j < i}
    IN IF ExtractDateFromHeader(content[i].s) # "" THEN ExtractDateFromHeader(content[i].s)
       ELSE IF before = {} THEN ""
       ELSE ExtractDateFromHeader(content[Max(before)].s)

\* C38: the level-3 sections are those of the level-3 headers with a title,
\* in order, and each has the date of its own header, or, when that header
\* has none, the date of the last level-2 header before it, or no date when
\* that header has none or there is no such header.
C38_DateCascade ==
    Parsed =>
        LET h3s == ascending({i \in linesOf(answer.arg, "h3") : answer.arg[i].s # ""})
        IN /\ Len(emitted(3)) = Len(h3s)
           /\ \A n \in 1..Len(h3s) :
                  /\ emitted(3)[n].Title = answer.arg[h3s[n]].s
                  /\ emitted(3)[n].ValidAt = cascade(answer.arg, h3s[n])

\* under a dated level-2 header, a level-3 section has taken its date and
\* another one has its own
C38_Witness ==
    /\ Parsed
    /\ Len(emitted(3)) = 2
    /\ emitted(3)[1].Title = "B" /\ emitted(3)[1].ValidAt = "2026-01-21"
    /\ emitted(3)[2].ValidAt = "2026-01-22"

(***************************************************************************)
(* The sections of the level-2 headers                                     *)
(***************************************************************************)
\* the end of the body of the level-2 header at position i: the line before
\* the next level-2 header, or the last line
bodyEnd(content, i) ==
    LET next == {j \in linesOf(content, "h2") : j > i}
    IN IF next = {} THEN Len(content) ELSE Min(next) - 1

\* the level-3 headers under the level-2 header at position i
children(content, i) == {j \in linesOf(content, "h3") : i < j /\ j <= bodyEnd(content, i)}

\* the text the section of the level-2 header at position i is to hold: its
\* body, up to its first level-3 header when it has one
ownText(content, i) ==
    TrimSpace(SubSeq(content, i + 1,
                     IF children(content, i) = {} THEN bodyEnd(content, i)
                     ELSE Min(children(content, i)) - 1))

\* the level-2 headers that are to be sections: those without level-3
\* headers under them, and those with text before the first of them
ownSection(content, i) == children(content, i) = {} \/ ownText(content, i) # << >>

\* C37: the level-2 sections are, in order, those of the level-2 headers
\* that have no level-3 header under them, each with its whole body, and
\* those of the level-2 headers with text before their first level-3 header,
\* each with that text and no more.
C37_Level2Sections ==
    Parsed =>
        LET h2s == ascending({i \in linesOf(answer.arg, "h2") : ownSection(answer.arg, i)})
        IN /\ Len(emitted(2)) = Len(h2s)
           /\ \A n \in 1..Len(h2s) :
                  /\ emitted(2)[n].Title = answer.arg[h2s[n]].s
                  /\ emitted(2)[n].Content = ownText(answer.arg, h2s[n])

(***************************************************************************)
(* The text of the document and the text of the sections                   *)
(***************************************************************************)
\* how many of the lines are the text line l
occurrences(ls, l) == Cardinality({i \in 1..Len(ls) : ls[i] = l})

RECURSIVE sectionText(_)
sectionText(secs) ==
    IF secs = << >> THEN << >> ELSE Head(secs).Content \o sectionText(Tail(secs))

\* C40: every line of the document that is neither empty nor a "## " or
\* "### " header is a line of the content of one section, and of one only.
C40_NoTextDropped ==
    Parsed =>
        \A l \in {x \in DocLines : x.k = "t"} :
            occurrences(sectionText(answer.out), l) = occurrences(answer.arg, l)

====
